---- MODULE Spec2Model ----
(***************************************************************************)
(* State-machine model of the AssppWeb backend:                            *)
(*   - WispProxy       (src/src/do/WispProxy.ts): one tunnel session       *)
(*   - DownloadManager (src/unnamed/part_006):    task store, download     *)
(*     workers, SINF injection, janitor                                    *)
(*                                                                         *)
(* Scheduling model.  A Durable Object runs one JavaScript thread.  A      *)
(* handler runs without interruption up to an await on external I/O        *)
(* (fetch, a body read, an R2 call, a TCP write); awaits on ctx.storage    *)
(* do not let another event in (input gate).  Every action below is one    *)
(* such run-to-await segment.                                              *)
(*                                                                         *)
(* Specifications.                                                         *)
(*   SpecWisp          the tunnel session                                  *)
(*   Spec              DownloadManager: the task RPCs and the download     *)
(*                     workers                                             *)
(*   SpecJanitor       createTask and the download workers with            *)
(*                     cleanupExpired running beside them                  *)
(*   SpecJanitorAlone  cleanupExpired on a store where nothing else runs   *)
(*   SpecStream        one streamToR2 call with the bytes of the body, in  *)
(*                     MiB                                                 *)
(*   SpecAuth          GET /auth/challenge and POST /auth/setup            *)
(*                     (src/unnamed/part_005, src/src/routes/install.ts);  *)
(*                     a Worker interleaves its requests at every await    *)
(*   SpecGate          the middleware chain of src/src/index.ts in front   *)
(*                     of the tunnel and the API routes                    *)
(*   SpecFetch         one fetchWithRetry call (src/unnamed/part_006) with *)
(*                     its backoff sleeps and its abort signal             *)
(*   SpecZip           appendToZipTail (src/unnamed/part_007) on archives  *)
(*                     given as their records, with the widths of the      *)
(*                     fields                                              *)
(*                                                                         *)
(* In Spec the download worker is modelled by its awaits and its writes    *)
(* to storage and to the bucket; the bytes of the body and the part        *)
(* numbers are in SpecStream.  An aborted fetch or body read rejects with  *)
(* AbortError; R2 calls do not look at the abort signal.  The read-only    *)
(* RPCs (getTask,                                                          *)
(* listTasks, getR2Key) are operators on the state: their R2 head is read  *)
(* in the same state as the record.                                        *)
(***************************************************************************)
EXTENDS Integers, Sequences, FiniteSets, TLC

\* ------------------------------------------------------------------------
\* Bounds of the model
\* ------------------------------------------------------------------------
MaxStreamId == 2
MaxSockets == 2
MaxFrames == 4
MaxTasks == 2
MaxWorkers == 2
MaxJanitorRuns == 1

\* ------------------------------------------------------------------------
\* WispProxy: constants
\* ------------------------------------------------------------------------
TYPE_CONNECT == 1
TYPE_DATA == 2
TYPE_CONTINUE == 3
TYPE_CLOSE == 4
CLOSE_REASON_VOLUNTARY == 1
CLOSE_REASON_NETWORK_ERROR == 2
CLOSE_REASON_INVALID_INFO == 65
INITIAL_CREDIT == 131072

\* Hostnames are sequences of one-character strings.
DomainSuffix ==
  <<".", "i", "t", "u", "n", "e", "s", ".", "a", "p", "p", "l", "e", ".", "c", "o", "m">>
HostAuth == <<"a", "u", "t", "h">> \o DomainSuffix
HostBuy == <<"b", "u", "y">> \o DomainSuffix
HostInit == <<"i", "n", "i", "t">> \o DomainSuffix
HostP12Buy == <<"p", "1", "2", "-", "b", "u", "y">> \o DomainSuffix
HostP7Buy == <<"p", "7", "-", "b", "u", "y">> \o DomainSuffix
HostPBuy == <<"p", "-", "b", "u", "y">> \o DomainSuffix
HostPxBuy == <<"p", "x", "-", "b", "u", "y">> \o DomainSuffix
HostEvil == <<"e", "v", "i", "l", ".", "c", "o", "m">>
HostAuthTrailing == HostAuth \o <<".", "e", "v", "i", "l", ".", "c", "o", "m">>
HostAuthLeading == <<"x">> \o HostAuth
HostAuthNoDot == <<"a", "u", "t", "h", "x">> \o Tail(DomainSuffix)
HostIp == <<"1", ".", "2", ".", "3", ".", "4">>
HostEmpty == <<>>

Hostnames ==
  {HostAuth, HostBuy, HostInit, HostP12Buy, HostP7Buy, HostPBuy, HostPxBuy, HostEvil,
   HostAuthTrailing, HostAuthLeading, HostAuthNoDot, HostIp, HostEmpty}

Digits == {"0", "1", "2", "3", "4", "5", "6", "7", "8", "9"}

\* /^p\d+-buy\.itunes\.apple\.com$/
MatchPodBuy(h) ==
  /\ Len(h) >= 1
  /\ h[1] = "p"
  /\ \E n \in 1..Len(h) :
       /\ n + 1 <= Len(h)
       /\ \A i \in 2..(n + 1) : h[i] \in Digits
       /\ SubSeq(h, n + 2, Len(h)) = <<"-", "b", "u", "y">> \o DomainSuffix

\* A mis-anchored allowlist: the literal patterns match as substrings.
RECURSIVE Contains(_, _)
Contains(h, lit) ==
  IF Len(h) < Len(lit) THEN FALSE
  ELSE SubSeq(h, 1, Len(lit)) = lit \/ Contains(Tail(h), lit)

HostAllowedUnanchored(hostname) ==
  \/ Contains(hostname, HostAuth)
  \/ Contains(hostname, HostBuy)
  \/ Contains(hostname, HostInit)
  \/ MatchPodBuy(hostname)

\* ALLOWED_HOSTS.some((r) => r.test(hostname)): the three literal patterns are
\* anchored at both ends with every dot escaped, so they match by equality.
HostAllowed(hostname) ==
  \/ hostname = HostAuth
  \/ hostname = HostBuy
  \/ hostname = HostInit
  \/ MatchPodBuy(hostname)

\* A CONNECT payload is the byte sequence [streamType, portLo, portHi] followed
\* by the hostname; short payloads carry fewer than 4 bytes.
ConnectPayload(streamType, port, hostname) ==
  <<streamType, port % 256, port \div 256>> \o hostname

ConnectPayloads ==
  {ConnectPayload(1, 443, h) : h \in Hostnames}
    \cup {ConnectPayload(2, 443, HostAuth), ConnectPayload(1, 80, HostAuth),
          ConnectPayload(1, 8443, HostBuy), ConnectPayload(2, 80, HostEvil),
          ConnectPayload(1, 47873, HostAuth), ConnectPayload(1, 187, HostAuth),
          <<1, 187>>, <<>>}

PayloadStreamType(payload) == payload[1]
PayloadPort(payload) == payload[2] + 256 * payload[3]
PayloadHostname(payload) == SubSeq(payload, 4, Len(payload))

StreamIds == 1..MaxStreamId

\* A CONTINUE frame that grants no credit
ContinueFrameNoCredit(streamId, bufferRemaining) ==
  [type |-> TYPE_CONTINUE, streamId |-> streamId, arg |-> 0]

ContinueFrame(streamId, bufferRemaining) ==
  [type |-> TYPE_CONTINUE, streamId |-> streamId, arg |-> bufferRemaining]
CloseFrame(streamId, reason) ==
  [type |-> TYPE_CLOSE, streamId |-> streamId, arg |-> reason]
DataFrame(streamId) ==
  [type |-> TYPE_DATA, streamId |-> streamId, arg |-> 0]

VARIABLES
  ws,        \* WispProxy.ws is set (the server side of the WebSocket pair)
  wsClosed,  \* the WebSocket has closed or errored
  streams,   \* WispProxy.streams: streamId -> socket number, 0 when absent
  sockets,   \* every TCP socket opened: its streamId, its pump, its writer's state
  connected, \* the address handed to the latest connect() call
  frames     \* frames sent on the WebSocket, oldest first

VARIABLES
  taskStore,        \* ctx.storage task:<id>: the task record, NoTask when absent
  r2keyStore,       \* ctx.storage r2key:<id>: the artifact key, NoKey when absent
  accountIndex,     \* ctx.storage accounts:<hash>: list of task ids
  abortControllers, \* DownloadManager.abortControllers: id -> worker, 0 when absent
  bucket,           \* IPA_BUCKET: the keys that hold an object
  workers,          \* every startDownload invocation: its task object and position
  nextId,           \* how many task ids crypto.randomUUID() has handed out
  deleting,         \* deleteTask calls waiting for their R2 delete
  jan               \* the cleanupExpired invocation, if one is running

VARIABLES
  stream            \* one streamToR2 invocation: its local variables and position

VARIABLES
  now,              \* Math.floor(Date.now() / 1000) of the Worker
  challenges,       \* the challenges generateChallenge has issued
  usedChallenges,   \* the module-level Map usedChallenges, as pairs <<challenge, ts>>
  requests,         \* every POST /auth/setup: its body, position and response
  kvPasswordHash,   \* AUTH_KV password_hash, Null when absent
  doPasswordHash    \* DownloadManager storage auth:password_hash, Null when absent

VARIABLES
  gate              \* one request on its way through the middleware of index.ts

VARIABLES
  zip               \* one appendToZipTail call: its arguments, locals and result

VARIABLES
  retry             \* one fetchWithRetry call: its locals, its signal, its outcome

wispVars == <<ws, wsClosed, streams, sockets, connected, frames>>
dmVars ==
  <<taskStore, r2keyStore, accountIndex, abortControllers, bucket, workers, nextId,
    deleting, jan>>
vars ==
  <<ws, wsClosed, streams, sockets, connected, frames, taskStore, r2keyStore,
    accountIndex, abortControllers, bucket, workers, nextId, deleting, jan, stream,
    now, challenges, usedChallenges, requests, kvPasswordHash, doPasswordHash,
    gate, zip, retry>>
authVars == <<now, challenges, usedChallenges, requests, kvPasswordHash, doPasswordHash>>
\* What an action of one object leaves alone: the state of the other objects.
outsideWisp == <<dmVars, stream, authVars, gate, zip, retry>>
outsideDM == <<wispVars, stream, authVars, gate, zip, retry>>
outsideStream == <<wispVars, dmVars, authVars, gate, zip, retry>>
outsideAuth == <<wispVars, dmVars, stream, gate, zip, retry>>
outsideGate == <<wispVars, dmVars, stream, zip, retry>>
outsideZip == <<wispVars, dmVars, stream, authVars, gate, retry>>
outsideRetry == <<wispVars, dmVars, stream, authVars, gate, zip>>

\* sendData / sendContinue / sendClose: nothing is sent while ws is unset.
Send(log, frame) == IF ws THEN Append(log, frame) ELSE log

WispInit ==
  /\ ws = FALSE
  /\ wsClosed = FALSE
  /\ streams = [s \in StreamIds |-> 0]
  /\ sockets = <<>>
  /\ connected = [hostname |-> <<>>, port |-> 0]
  /\ frames = <<>>

\* fetch(): accept the WebSocket and send the session-level CONTINUE.
WispFetch ==
  /\ ~ws
  /\ ws' = TRUE
  /\ frames' = Append(frames, ContinueFrame(0, INITIAL_CREDIT))
  /\ UNCHANGED <<wsClosed, streams, sockets, connected>>
  /\ UNCHANGED outsideWisp

Accepting == ws /\ ~wsClosed

\* handleConnect(streamId, payload); connectThrows: connect() throws.
HandleConnect(streamId, payload, connectThrows) ==
  /\ Accepting
  /\ IF Len(payload) < 4
     THEN /\ frames' = Send(frames, CloseFrame(streamId, CLOSE_REASON_INVALID_INFO))
          /\ UNCHANGED <<streams, sockets, connected>>
     ELSE IF \/ PayloadStreamType(payload) # 1
             \/ PayloadPort(payload) # 443
             \/ ~HostAllowed(PayloadHostname(payload))
     THEN /\ frames' = Send(frames, CloseFrame(streamId, CLOSE_REASON_INVALID_INFO))
          /\ UNCHANGED <<streams, sockets, connected>>
     ELSE IF connectThrows
     THEN /\ frames' = Send(frames, CloseFrame(streamId, CLOSE_REASON_NETWORK_ERROR))
          /\ UNCHANGED <<streams, sockets, connected>>
     ELSE /\ Len(sockets) < MaxSockets
          /\ connected' = [hostname |-> PayloadHostname(payload),
                            port |-> PayloadPort(payload)]
          /\ sockets' = Append(sockets,
               [streamId |-> streamId, pump |-> "reading", writerClosed |-> FALSE,
                writeFailed |-> FALSE])
          /\ streams' = [streams EXCEPT ![streamId] = Len(sockets) + 1]
          /\ frames' = Send(frames, ContinueFrame(streamId, 128 * 1024))
  /\ Len(frames') <= MaxFrames
  /\ UNCHANGED <<ws, wsClosed>>
  /\ UNCHANGED outsideWisp

\* handleData(streamId, payload); writeFails: writer.write() rejects.
HandleData(streamId, writeFails) ==
  /\ Accepting
  /\ streams[streamId] # 0
  /\ IF writeFails
     THEN /\ frames' = Send(frames, CloseFrame(streamId, CLOSE_REASON_NETWORK_ERROR))
          /\ sockets' = [sockets EXCEPT ![streams[streamId]].writeFailed = TRUE]
          /\ streams' = [streams EXCEPT ![streamId] = 0]
     ELSE UNCHANGED <<frames, sockets, streams>>
  /\ Len(frames') <= MaxFrames
  /\ UNCHANGED <<ws, wsClosed, connected>>
  /\ UNCHANGED outsideWisp

\* handleClose(streamId): close the writer, drop the entry; no frame.
HandleClose(streamId) ==
  /\ Accepting
  /\ streams[streamId] # 0
  /\ sockets' = [sockets EXCEPT ![streams[streamId]].writerClosed = TRUE]
  /\ streams' = [streams EXCEPT ![streamId] = 0]
  /\ UNCHANGED <<ws, wsClosed, connected, frames>>
  /\ UNCHANGED outsideWisp

\* webSocketMessage: a string message, a frame shorter than 5 bytes, a frame of
\* another type, or DATA / CLOSE on an unknown streamId changes nothing.
IgnoredMessage ==
  /\ Accepting
  /\ UNCHANGED vars

\* pipeToWs: one chunk read from the TCP socket.
PipeToWsData(s) ==
  /\ s \in 1..Len(sockets)
  /\ sockets[s].pump = "reading"
  /\ frames' = Send(frames, DataFrame(sockets[s].streamId))
  /\ Len(frames') <= MaxFrames
  /\ UNCHANGED <<ws, wsClosed, streams, sockets, connected>>
  /\ UNCHANGED outsideWisp

\* pipeToWs: the read returns done; the finally block runs.
PipeToWsEOF(s) ==
  /\ s \in 1..Len(sockets)
  /\ sockets[s].pump = "reading"
  /\ sockets' = [sockets EXCEPT ![s].pump = "ended"]
  /\ frames' = Send(frames, CloseFrame(sockets[s].streamId, CLOSE_REASON_VOLUNTARY))
  /\ streams' = [streams EXCEPT ![sockets[s].streamId] = 0]
  /\ Len(frames') <= MaxFrames
  /\ UNCHANGED <<ws, wsClosed, connected>>
  /\ UNCHANGED outsideWisp

\* pipeToWs: the read rejects; the finally block runs, then the .catch handler
\* of handleConnect.
PipeToWsError(s) ==
  /\ s \in 1..Len(sockets)
  /\ sockets[s].pump = "reading"
  /\ sockets' = [sockets EXCEPT ![s].pump = "ended"]
  /\ frames' = Send(Send(frames, CloseFrame(sockets[s].streamId, CLOSE_REASON_VOLUNTARY)),
                    CloseFrame(sockets[s].streamId, CLOSE_REASON_NETWORK_ERROR))
  /\ streams' = [streams EXCEPT ![sockets[s].streamId] = 0]
  /\ Len(frames') <= MaxFrames
  /\ UNCHANGED <<ws, wsClosed, connected>>
  /\ UNCHANGED outsideWisp

\* webSocketClose / webSocketError -> closeAllStreams.
WebSocketClose ==
  /\ Accepting
  /\ wsClosed' = TRUE
  /\ sockets' = [s \in 1..Len(sockets) |->
                   IF \E id \in StreamIds : streams[id] = s
                   THEN [sockets[s] EXCEPT !.writerClosed = TRUE]
                   ELSE sockets[s]]
  /\ streams' = [id \in StreamIds |-> 0]
  /\ UNCHANGED <<ws, connected, frames>>
  /\ UNCHANGED outsideWisp

WispNext ==
  \/ WispFetch
  \/ \E id \in StreamIds, p \in ConnectPayloads, t \in BOOLEAN : HandleConnect(id, p, t)
  \/ \E id \in StreamIds, f \in BOOLEAN : HandleData(id, f)
  \/ \E id \in StreamIds : HandleClose(id)
  \/ IgnoredMessage
  \/ \E s \in 1..MaxSockets : PipeToWsData(s)
  \/ \E s \in 1..MaxSockets : PipeToWsEOF(s)
  \/ \E s \in 1..MaxSockets : PipeToWsError(s)
  \/ WebSocketClose

\* ------------------------------------------------------------------------
\* DownloadManager: data
\* ------------------------------------------------------------------------
MIN_ACCOUNT_HASH_LENGTH == 8
MiB == 1024 * 1024

Undefined == "undefined"
Null == [null |-> TRUE]
NoTask == [absent |-> "task"]
NoKey == [absent |-> "r2key"]

TaskIds == 1..MaxTasks
AccountHashes == {"aaaaaaaa", "bbbbbbbb"}
ShortHash == "short"
HashLength(h) == IF h \in AccountHashes THEN 8 ELSE 5

UrlCdn == [protocol |-> "https:", hostname |-> <<"cdn", "apple", "com">>]
UrlHttp == [protocol |-> "http:", hostname |-> <<"cdn", "apple", "com">>]
UrlEvil == [protocol |-> "https:", hostname |-> <<"evil", "com">>]
UrlIp == [protocol |-> "https:", hostname |-> <<"1", "2", "3", "4">>]
EmptyUrl == [protocol |-> "", hostname |-> <<>>]

\* validateDownloadURL: TRUE when it does not throw.  The hostname is a list of
\* labels; /\.apple\.com$/i needs a label before "apple.com".
validateDownloadURL(url) ==
  /\ url # EmptyUrl
  /\ url.protocol = "https:"
  /\ Len(url.hostname) >= 3
  /\ SubSeq(url.hostname, Len(url.hostname) - 1, Len(url.hostname)) = <<"apple", "com">>
  /\ ~(Len(url.hostname) = 4 /\ \A i \in 1..4 : url.hostname[i] \in Digits)

\* createTask's params.  Plain: no SINF and no metadata to inject.
Params(version, accountHash, downloadURL, inject) ==
  [software |-> [bundleID |-> "com.x.y", version |-> version],
   accountHash |-> accountHash, downloadURL |-> downloadURL,
   sinfs |-> IF inject THEN <<"SINF">> ELSE <<>>,
   iTunesMetadata |-> IF inject THEN "plist" ELSE Undefined]

\* The requests tried: two that can be accepted (one per account, with and
\* without injection) and one for each reason to refuse.
CreateParams ==
  {Params("1.2", "aaaaaaaa", UrlCdn, TRUE),
   Params("1.3", "bbbbbbbb", UrlCdn, FALSE),
   Params("1.2", ShortHash, UrlCdn, TRUE),
   Params("1.2", "aaaaaaaa", UrlHttp, TRUE),
   Params("1.2", "aaaaaaaa", UrlEvil, FALSE),
   Params("1.3", "bbbbbbbb", UrlIp, FALSE)}

\* packages/<accountHash>/<bundleID>/<id>.ipa, and its ".new" sibling
ArtifactKey(accountHash, bundleID, id) ==
  [accountHash |-> accountHash, bundleID |-> bundleID, id |-> id, new |-> FALSE]
NewKey(key) == [key EXCEPT !.new = TRUE]
TaskKey(task) == ArtifactKey(task.accountHash, task.software.bundleID, task.id)
\* obj.size: every object of the model holds 10 MiB.
ObjectSize(key) == 10 * MiB

SecretFields == {"downloadURL", "sinfs", "iTunesMetadata", "filePath"}

\* sanitize(task, hasFile, fileSize) with the iTunesMetadata key left in place
sanitizeKeepsMetadata(task, hasFile, fileSize) ==
  [f \in ((DOMAIN task) \ {"downloadURL", "sinfs", "filePath"}) \cup {"hasFile", "fileSize"} |->
     IF f = "hasFile" THEN hasFile ELSE IF f = "fileSize" THEN fileSize ELSE task[f]]

\* sanitize(task, hasFile, fileSize)
sanitize(task, hasFile, fileSize) ==
  [f \in ((DOMAIN task) \ {"downloadURL", "sinfs", "iTunesMetadata", "filePath"})
           \cup {"hasFile", "fileSize"} |->
     IF f = "hasFile" THEN hasFile ELSE IF f = "fileSize" THEN fileSize ELSE task[f]]

\* loadTask(id)
loadTask(id) == IF taskStore[id] = NoTask THEN Null ELSE taskStore[id]

\* The task object createTask builds.
NewTask(params, id) ==
  [id |-> id, software |-> params.software, accountHash |-> params.accountHash,
   downloadURL |-> params.downloadURL, sinfs |-> params.sinfs,
   iTunesMetadata |-> params.iTunesMetadata, status |-> "pending", progress |-> 0,
   speed |-> "0 B/s", error |-> Undefined, createdAt |-> id]

\* createTask's dedup loop: TRUE when it throws "Already downloading".
IsDuplicate(params) ==
  \E i \in 1..Len(accountIndex[params.accountHash]) :
    LET existing == loadTask(accountIndex[params.accountHash][i]) IN
      /\ existing # Null
      /\ existing.software.bundleID = params.software.bundleID
      /\ existing.software.version = params.software.version
      /\ existing.status # "failed"

\* createTask accepts params (it does not throw).
CreateAccepts(params) ==
  /\ validateDownloadURL(params.downloadURL)
  /\ params.accountHash # ""
  /\ HashLength(params.accountHash) >= MIN_ACCOUNT_HASH_LENGTH
  /\ ~IsDuplicate(params)

\* addToAccountIndex / removeFromAccountIndex
addToAccountIndex(index, accountHash, taskId) ==
  IF \E i \in 1..Len(index[accountHash]) : index[accountHash][i] = taskId
  THEN index
  ELSE [index EXCEPT ![accountHash] = Append(@, taskId)]
\* A removal that leaves the list as it is
KeepAccountIndex(index, accountHash, taskId) == index
removeFromAccountIndex(index, accountHash, taskId) ==
  [index EXCEPT ![accountHash] = SelectSeq(@, LAMBDA x : x # taskId)]

\* abortControllers.get(id)?.abort()
AbortWorker(ws_, id) ==
  IF abortControllers[id] # 0
  THEN [ws_ EXCEPT ![abortControllers[id]].aborted = TRUE]
  ELSE ws_

\* startDownload up to its first await on the network: a new controller is
\* registered and the task is saved as downloading.
StartedTask(task) ==
  [task EXCEPT !.status = "downloading", !.progress = 0, !.speed = "0 B/s",
               !.error = Undefined]
NewWorker(task) ==
  [task |-> StartedTask(task), pc |-> "fetch", aborted |-> FALSE, err |-> ""]

\* deleteR2Files: the keys it deletes
FilesToDelete(id, accountHash, r2key, task) ==
  (IF r2key # NoKey THEN {r2key} ELSE {})
    \cup (IF task # Null
          THEN {ArtifactKey(accountHash, task.software.bundleID, id),
                NewKey(ArtifactKey(accountHash, task.software.bundleID, id))}
          ELSE {})

JanIdle ==
  [pc |-> "idle", phase |-> 0, all |-> <<>>, copy |-> <<>>, k |-> 0, sizeMap |-> {},
   totalSize |-> 0, days |-> 0, maxMB |-> 0, cutoff |-> 0, cur |-> Null,
   orphanKeys |-> {}, deletedByAge |-> 0, deletedBySize |-> 0, deletedOrphaned |-> 0,
   runs |-> 0]

DMInit ==
  /\ taskStore = [i \in TaskIds |-> NoTask]
  /\ r2keyStore = [i \in TaskIds |-> NoKey]
  /\ accountIndex = [h \in AccountHashes |-> <<>>]
  /\ abortControllers = [i \in TaskIds |-> 0]
  /\ bucket = {}
  /\ workers = <<>>
  /\ nextId = 0
  /\ deleting = {}
  /\ jan = JanIdle

\* ------------------------------------------------------------------------
\* DownloadManager: RPCs
\* ------------------------------------------------------------------------

\* createTask(params); a call that throws changes nothing.
createTask(params) ==
  /\ CreateAccepts(params)
  /\ nextId < MaxTasks
  /\ Len(workers) < MaxWorkers
  /\ LET task == NewTask(params, nextId + 1) IN
       /\ nextId' = nextId + 1
       /\ taskStore' = [taskStore EXCEPT ![task.id] = StartedTask(task)]
       /\ accountIndex' = addToAccountIndex(accountIndex, params.accountHash, task.id)
       /\ workers' = Append(workers, NewWorker(task))
       /\ abortControllers' = [abortControllers EXCEPT ![task.id] = Len(workers) + 1]
  /\ UNCHANGED <<r2keyStore, bucket, deleting, jan>>
  /\ UNCHANGED outsideDM

\* What an accepted createTask(params) returns: startDownload has run up to its
\* first await on the same object by then.
createTaskReturn(params) ==
  sanitize(StartedTask(NewTask(params, nextId + 1)), FALSE, Undefined)

\* getTask(id, accountHash)
getTask(id, accountHash) ==
  LET task == loadTask(id) IN
    IF task = Null \/ task.accountHash # accountHash THEN Null
    ELSE LET r2key == r2keyStore[id]
             head == r2key # NoKey /\ r2key \in bucket
         IN sanitize(task, head, IF head THEN ObjectSize(r2key) ELSE Undefined)

\* listTasks(accountHashes): accountHashes is a sequence of hashes
RECURSIVE listTasksFrom(_, _)
listTasksFrom(ids, k) ==
  IF k > Len(ids) THEN <<>>
  ELSE LET task == loadTask(ids[k])
           r2key == r2keyStore[ids[k]]
           head == r2key # NoKey /\ r2key \in bucket
       IN (IF task = Null THEN <<>>
           ELSE <<sanitize(task, head, IF head THEN ObjectSize(r2key) ELSE Undefined)>>)
            \o listTasksFrom(ids, k + 1)
RECURSIVE listTasks(_)
listTasks(accountHashes) ==
  IF accountHashes = <<>> THEN <<>>
  ELSE listTasksFrom(accountIndex[Head(accountHashes)], 1) \o listTasks(Tail(accountHashes))

\* getR2Key(id, accountHash)
getR2Key(id, accountHash) ==
  LET task == loadTask(id) IN
    IF task = Null \/ task.accountHash # accountHash THEN Null
    ELSE IF task.status # "completed" THEN Null
    ELSE IF r2keyStore[id] = NoKey THEN Null ELSE r2keyStore[id]

\* The tenant check shared by the task RPCs, with the hash comparison left out
TenantOkNoHash(id, accountHash) == loadTask(id) # Null

\* `!task || task.accountHash !== accountHash` is false
TenantOk(id, accountHash) ==
  loadTask(id) # Null /\ loadTask(id).accountHash = accountHash

\* pauseTask's status test, also letting an injecting task through
PauseAllowedLoose(task) == task.status \in {"downloading", "injecting"}

\* pauseTask: `task.status !== 'downloading'` is false
PauseAllowed(task) == task.status = "downloading"

\* resumeTask: `task.status !== 'paused'` is false
ResumeAllowed(task) == task.status = "paused"

\* pauseTask(id, accountHash) returning ret
pauseTask(id, accountHash, ret) ==
  /\ IF TenantOk(id, accountHash) /\ PauseAllowed(loadTask(id))
     THEN /\ ret = TRUE
          /\ workers' = AbortWorker(workers, id)
          /\ abortControllers' = [abortControllers EXCEPT ![id] = 0]
          /\ taskStore' = [taskStore EXCEPT ![id] = [loadTask(id) EXCEPT !.status = "paused"]]
          /\ UNCHANGED <<r2keyStore, accountIndex, bucket, nextId, deleting, jan>>
     ELSE /\ ret = FALSE
          /\ UNCHANGED dmVars
  /\ UNCHANGED outsideDM

\* resumeTask(id, accountHash) returning ret
resumeTask(id, accountHash, ret) ==
  /\ IF TenantOk(id, accountHash) /\ ResumeAllowed(loadTask(id))
     THEN /\ ret = TRUE
          /\ Len(workers) < MaxWorkers
          /\ workers' = Append(workers, NewWorker(loadTask(id)))
          /\ abortControllers' = [abortControllers EXCEPT ![id] = Len(workers) + 1]
          /\ taskStore' = [taskStore EXCEPT ![id] = StartedTask(loadTask(id))]
          /\ UNCHANGED <<r2keyStore, accountIndex, bucket, nextId, deleting, jan>>
     ELSE /\ ret = FALSE
          /\ UNCHANGED dmVars
  /\ UNCHANGED outsideDM

\* deleteTask(id, accountHash) up to `await this.deleteR2Files(...)`; a call
\* that returns false ends here.
deleteTaskBegin(id, accountHash, ret) ==
  /\ IF TenantOk(id, accountHash)
     THEN /\ ret = TRUE
          /\ \A d \in deleting : d.id # id
          /\ workers' = AbortWorker(workers, id)
          /\ abortControllers' = [abortControllers EXCEPT ![id] = 0]
          /\ deleting' = deleting \cup
               {[id |-> id, accountHash |-> accountHash,
                 keys |-> FilesToDelete(id, accountHash, r2keyStore[id], loadTask(id))]}
          /\ UNCHANGED <<taskStore, r2keyStore, accountIndex, bucket, nextId, jan>>
     ELSE /\ ret = FALSE
          /\ UNCHANGED dmVars
  /\ UNCHANGED outsideDM

\* deleteTask after the R2 delete: the records are removed and true is returned.
deleteTaskEnd(id) ==
  /\ \E d \in deleting :
       /\ d.id = id
       /\ deleting' = deleting \ {d}
       /\ bucket' = bucket \ d.keys
       /\ taskStore' = [taskStore EXCEPT ![d.id] = NoTask]
       /\ r2keyStore' = [r2keyStore EXCEPT ![d.id] = NoKey]
       /\ accountIndex' = removeFromAccountIndex(accountIndex, d.accountHash, d.id)
  /\ UNCHANGED <<abortControllers, workers, nextId, jan>>
  /\ UNCHANGED outsideDM

\* ------------------------------------------------------------------------
\* DownloadManager: the download worker (startDownload, streamToR2, injectSinf)
\* ------------------------------------------------------------------------
Running(w) == w \in 1..Len(workers) /\ workers[w].pc # "done"
ProgressValues == {50}

\* A worker whose startDownload has returned: its locals are gone.
Finished == [task |-> Null, pc |-> "done", aborted |-> FALSE, err |-> ""]

\* startDownload's catch block, entered with error `err`, and line 598.
WorkerCatch(w, err) ==
  LET task == workers[w].task
      failed == [task EXCEPT !.status = "failed", !.error = err]
  IN /\ abortControllers' = [abortControllers EXCEPT ![task.id] = 0]
     /\ IF err = "AbortError"
        THEN /\ workers' = [workers EXCEPT ![w] = Finished]
             /\ UNCHANGED taskStore
        ELSE /\ workers' = [workers EXCEPT ![w] = Finished]
             /\ taskStore' = [taskStore EXCEPT ![task.id] = failed]

\* startDownload lines 580-584: the record written on completion
CompletedTask(task) ==
  [task EXCEPT !.status = "completed", !.progress = 100, !.downloadURL = EmptyUrl,
               !.sinfs = <<>>, !.iTunesMetadata = Undefined]

\* startDownload lines 580-586 and 598
WorkerComplete(w) ==
  LET task == workers[w].task IN
    /\ workers' = [workers EXCEPT ![w] = Finished]
    /\ taskStore' = [taskStore EXCEPT ![task.id] = CompletedTask(task)]
    /\ r2keyStore' = [r2keyStore EXCEPT ![task.id] = TaskKey(task)]
    /\ abortControllers' = [abortControllers EXCEPT ![task.id] = 0]

\* streamToR2's catch block: it waits for the pending part and for
\* upload.abort() before the error reaches startDownload.
StreamFails(w, err) ==
  /\ workers' = [workers EXCEPT ![w].pc = "aborting", ![w].err = err]
  /\ UNCHANGED <<taskStore, r2keyStore, abortControllers, bucket>>

\* streamToR2 lines 682-691 and the top of the read loop (line 654): the
\* throttled progress write, then the abort test before the next read.
AfterChunk(w, write, progress) ==
  LET task == workers[w].task
      shown == IF write THEN [task EXCEPT !.speed = "1.0 MB/s", !.progress = progress]
               ELSE task
  IN /\ workers' = [workers EXCEPT
                      ![w].task = shown,
                      ![w].pc = IF workers[w].aborted THEN "aborting" ELSE "read",
                      ![w].err = IF workers[w].aborted THEN "AbortError" ELSE ""]
     /\ taskStore' = IF write THEN [taskStore EXCEPT ![task.id] = shown] ELSE taskStore
     /\ UNCHANGED <<r2keyStore, abortControllers, bucket>>

\* fetchWithRetry settles, then the content-length test; on success
\* streamToR2 calls createMultipartUpload.
WorkerFetch(w, outcome) ==
  /\ Running(w) /\ workers[w].pc = "fetch"
  /\ outcome \in {"ok", "HTTP 503", "File too large"}
  /\ IF ~validateDownloadURL(workers[w].task.downloadURL)
     THEN WorkerCatch(w, "Invalid download URL") /\ UNCHANGED <<r2keyStore, bucket>>
     ELSE IF workers[w].aborted
     THEN WorkerCatch(w, "AbortError") /\ UNCHANGED <<r2keyStore, bucket>>
     ELSE IF outcome = "ok"
     THEN /\ workers' = [workers EXCEPT ![w].pc = "create"]
          /\ UNCHANGED <<taskStore, r2keyStore, abortControllers, bucket>>
     ELSE WorkerCatch(w, outcome) /\ UNCHANGED <<r2keyStore, bucket>>
  /\ UNCHANGED <<accountIndex, nextId, deleting, jan>>
  /\ UNCHANGED outsideDM

\* createMultipartUpload settles; the read loop starts with its abort test.
WorkerCreateUpload(w, ok) ==
  /\ Running(w) /\ workers[w].pc = "create"
  /\ IF ~ok
     THEN WorkerCatch(w, "R2 error") /\ UNCHANGED <<r2keyStore, bucket>>
     ELSE IF workers[w].aborted
     THEN StreamFails(w, "AbortError")
     ELSE /\ workers' = [workers EXCEPT ![w].pc = "read"]
          /\ UNCHANGED <<taskStore, r2keyStore, abortControllers, bucket>>
  /\ UNCHANGED <<accountIndex, nextId, deleting, jan>>
  /\ UNCHANGED outsideDM

\* reader.read() settles.  outcome: what the read brought and how far the
\* buffer is filled by it.
\*   chunk      no await before the progress write: the buffer stays under one
\*              part, or flushBuffer only fires the part in the background
\*   flush      flushBuffer waits for the pending part or for a part upload
\*   done       end of body, nothing left to wait for before complete
\*   doneDrain  end of body, a part left to wait for or to upload
WorkerRead(w, outcome, write, progress) ==
  /\ Running(w) /\ workers[w].pc = "read"
  /\ outcome \in {"chunk", "flush", "done", "doneDrain", "CDN stall", "File too large"}
  /\ progress \in ProgressValues
  /\ IF workers[w].aborted THEN StreamFails(w, "AbortError")
     ELSE CASE outcome = "chunk" -> AfterChunk(w, write, progress)
            [] outcome = "flush" ->
                 /\ workers' = [workers EXCEPT ![w].pc = "flush"]
                 /\ UNCHANGED <<taskStore, r2keyStore, abortControllers, bucket>>
            [] outcome = "done" ->
                 /\ workers' = [workers EXCEPT ![w].pc = "complete"]
                 /\ UNCHANGED <<taskStore, r2keyStore, abortControllers, bucket>>
            [] outcome = "doneDrain" ->
                 /\ workers' = [workers EXCEPT ![w].pc = "drain"]
                 /\ UNCHANGED <<taskStore, r2keyStore, abortControllers, bucket>>
            [] OTHER -> StreamFails(w, outcome)
  /\ UNCHANGED <<accountIndex, nextId, deleting, jan>>
  /\ UNCHANGED outsideDM

\* The part upload flushBuffer waits for settles; flushBuffer goes on (more:
\* another part to wait for), then lines 682-691.
WorkerFlush(w, ok, more, write, progress) ==
  /\ Running(w) /\ workers[w].pc = "flush"
  /\ progress \in ProgressValues
  /\ IF ~ok THEN StreamFails(w, "R2 error")
     ELSE IF more
     THEN UNCHANGED <<workers, taskStore, r2keyStore, abortControllers, bucket>>
     ELSE AfterChunk(w, write, progress)
  /\ UNCHANGED <<accountIndex, nextId, deleting, jan>>
  /\ UNCHANGED outsideDM

\* After the end of the body: the pending part and the remaining parts.
WorkerDrain(w, ok, more) ==
  /\ Running(w) /\ workers[w].pc = "drain"
  /\ IF ~ok THEN StreamFails(w, "R2 error")
     ELSE /\ workers' = [workers EXCEPT ![w].pc = IF more THEN "drain" ELSE "complete"]
          /\ UNCHANGED <<taskStore, r2keyStore, abortControllers, bucket>>
  /\ UNCHANGED <<accountIndex, nextId, deleting, jan>>
  /\ UNCHANGED outsideDM

\* `task.sinfs.length > 0 || task.iTunesMetadata`
NeedsInjection(task) == Len(task.sinfs) > 0 \/ task.iTunesMetadata # Undefined

\* upload.complete(parts) settles: the object is published; startDownload goes
\* on to the injection or to the completion block.
WorkerCompleteUpload(w, ok) ==
  /\ Running(w) /\ workers[w].pc = "complete"
  /\ LET task == workers[w].task
         injecting == [task EXCEPT !.status = "injecting", !.progress = 100]
     IN IF ~ok THEN StreamFails(w, "R2 error")
        ELSE IF NeedsInjection(task)
        THEN /\ bucket' = bucket \cup {TaskKey(task)}
             /\ workers' = [workers EXCEPT ![w].pc = "injHead", ![w].task = injecting]
             /\ taskStore' = [taskStore EXCEPT ![task.id] = injecting]
             /\ UNCHANGED <<r2keyStore, abortControllers>>
        ELSE /\ bucket' = bucket \cup {TaskKey(task)}
             /\ WorkerComplete(w)
  /\ UNCHANGED <<accountIndex, nextId, deleting, jan>>
  /\ UNCHANGED outsideDM

\* streamToR2's catch block is through; startDownload's catch block runs.
WorkerAborted(w) ==
  /\ Running(w) /\ workers[w].pc = "aborting"
  /\ WorkerCatch(w, workers[w].err)
  /\ UNCHANGED <<r2keyStore, bucket, accountIndex, nextId, deleting, jan>>
  /\ UNCHANGED outsideDM

\* injectSinf: head, the range reads of EOCD and central directory, and
\* buildFilesToAppend.  outcome: ok, nofiles (nothing to append), or an error.
WorkerInjectRead(w, outcome) ==
  /\ Running(w) /\ workers[w].pc = "injHead"
  /\ outcome \in {"ok", "nofiles", "Not a ZIP"}
  /\ IF TaskKey(workers[w].task) \notin bucket
     THEN WorkerCatch(w, "R2 object not found") /\ UNCHANGED <<r2keyStore, bucket>>
     ELSE IF outcome = "ok"
     THEN /\ workers' = [workers EXCEPT ![w].pc = "injUpload"]
          /\ UNCHANGED <<taskStore, r2keyStore, abortControllers, bucket>>
     ELSE IF outcome = "nofiles"
     THEN WorkerComplete(w) /\ UNCHANGED bucket
     ELSE WorkerCatch(w, outcome) /\ UNCHANGED <<r2keyStore, bucket>>
  /\ UNCHANGED <<accountIndex, nextId, deleting, jan>>
  /\ UNCHANGED outsideDM

\* An injection whose failed upload leaves an object under the ".new" key
WorkerInjectUploadLeaks(w, ok) ==
  /\ Running(w) /\ workers[w].pc = "injUpload"
  /\ bucket' = bucket \cup {NewKey(TaskKey(workers[w].task))}
  /\ workers' = [workers EXCEPT ![w].pc = IF ok THEN "injGet" ELSE "aborting",
                                ![w].err = IF ok THEN "" ELSE "R2 error"]
  /\ UNCHANGED <<taskStore, r2keyStore, abortControllers>>
  /\ UNCHANGED <<accountIndex, nextId, deleting, jan>>
  /\ UNCHANGED outsideDM

\* injectSinf: the multipart upload to the ".new" key, up to upload.complete.
WorkerInjectUpload(w, ok) ==
  /\ Running(w) /\ workers[w].pc = "injUpload"
  /\ IF TaskKey(workers[w].task) \notin bucket
     THEN StreamFails(w, "R2 range read failed")
     ELSE IF ~ok THEN StreamFails(w, "R2 error")
     ELSE /\ bucket' = bucket \cup {NewKey(TaskKey(workers[w].task))}
          /\ workers' = [workers EXCEPT ![w].pc = "injGet"]
          /\ UNCHANGED <<taskStore, r2keyStore, abortControllers>>
  /\ UNCHANGED <<accountIndex, nextId, deleting, jan>>
  /\ UNCHANGED outsideDM

\* injectSinf: get(newKey) settles.
WorkerInjectGet(w) ==
  /\ Running(w) /\ workers[w].pc = "injGet"
  /\ IF NewKey(TaskKey(workers[w].task)) \in bucket
     THEN /\ workers' = [workers EXCEPT ![w].pc = "injPut"]
          /\ UNCHANGED <<taskStore, r2keyStore, abortControllers, bucket>>
     ELSE WorkerCatch(w, "R2 rename step failed") /\ UNCHANGED <<r2keyStore, bucket>>
  /\ UNCHANGED <<accountIndex, nextId, deleting, jan>>
  /\ UNCHANGED outsideDM

\* injectSinf: put(r2key, newObj.body) settles.
WorkerInjectPut(w, ok) ==
  /\ Running(w) /\ workers[w].pc = "injPut"
  /\ IF ok
     THEN /\ bucket' = bucket \cup {TaskKey(workers[w].task)}
          /\ workers' = [workers EXCEPT ![w].pc = "injDel"]
          /\ UNCHANGED <<taskStore, r2keyStore, abortControllers>>
     ELSE WorkerCatch(w, "R2 error") /\ UNCHANGED <<r2keyStore, bucket>>
  /\ UNCHANGED <<accountIndex, nextId, deleting, jan>>
  /\ UNCHANGED outsideDM

\* injectSinf: delete(newKey) settles (a failure is logged and ignored), then
\* the completion block.
WorkerInjectDelete(w, ok) ==
  /\ Running(w) /\ workers[w].pc = "injDel"
  /\ bucket' = IF ok THEN bucket \ {NewKey(TaskKey(workers[w].task))} ELSE bucket
  /\ WorkerComplete(w)
  /\ UNCHANGED <<accountIndex, nextId, deleting, jan>>
  /\ UNCHANGED outsideDM

\* ------------------------------------------------------------------------
\* DownloadManager: the janitor (cleanupExpired, purgeTask)
\* ------------------------------------------------------------------------
RECURSIVE SumSizes(_)
SumSizes(keys) ==
  IF keys = {} THEN 0
  ELSE LET key == CHOOSE x \in keys : TRUE IN ObjectSize(key) + SumSizes(keys \ {key})

\* Array.prototype.sort by createdAt, ascending and stable
RECURSIVE InsertByCreatedAt(_, _)
InsertByCreatedAt(sorted, entry) ==
  IF sorted = <<>> THEN <<entry>>
  ELSE IF Head(sorted).createdAt <= entry.createdAt
       THEN <<Head(sorted)>> \o InsertByCreatedAt(Tail(sorted), entry)
       ELSE <<entry>> \o sorted
\* A sort that leaves the storage order
KeepOrder(entries) == entries

RECURSIVE SortByCreatedAt(_)
SortByCreatedAt(entries) ==
  IF entries = <<>> THEN <<>>
  ELSE InsertByCreatedAt(SortByCreatedAt(SubSeq(entries, 1, Len(entries) - 1)),
                         entries[Len(entries)])

\* The size of the object at the key of the task, recorded or not
ComputedSize(j, entry) ==
  IF ArtifactKey(entry.accountHash, entry.bundleID, entry.id) \in j.sizeMap
  THEN ObjectSize(ArtifactKey(entry.accountHash, entry.bundleID, entry.id))
  ELSE 0

\* `entry.r2key ? (sizeMap.get(entry.r2key) ?? 0) : 0`
EntrySize(j, entry) ==
  IF entry.r2key # NoKey /\ entry.r2key \in j.sizeMap THEN ObjectSize(entry.r2key) ELSE 0

\* Phase 3, lines 476-489: the listed keys that no r2key record names
OrphanKeys(sizeMap, r2keys) ==
  {key \in sizeMap : \A i \in DOMAIN r2keys : r2keys[i] # key}

\* totalSizeMB of the returned object, in hundredths of a MiB:
\* Math.round((totalSize / (1024 * 1024)) * 100) / 100
totalSizeMB(totalSize) ==
  100 * (totalSize \div MiB) + (200 * (totalSize % MiB) + MiB) \div (2 * MiB)

\* cleanupExpired returns: what is left is the returned counts.
JanReturn(j) ==
  [JanIdle EXCEPT !.runs = j.runs, !.deletedByAge = j.deletedByAge,
                  !.deletedBySize = j.deletedBySize, !.deletedOrphaned = j.deletedOrphaned,
                  !.totalSize = j.totalSize]

\* cleanupExpired from the point it resumes after an await up to its next
\* await: the phase 1 loop, the phase 2 loop and phase 3, each stopping at
\* the first purgeTask (pc "purging") or at the orphan batch delete
\* (pc "orphans"); pc "idle" when it returns.  r2keys: the r2key records.
RECURSIVE JanScan(_, _)
JanScan(j, r2keys) ==
  IF j.phase = 1
  THEN IF j.days > 0 /\ j.k <= Len(j.copy)
       THEN IF j.copy[j.k].createdAt < j.cutoff
            THEN [j EXCEPT !.pc = "purging", !.cur = j.copy[j.k]]
            ELSE JanScan([j EXCEPT !.k = @ + 1], r2keys)
       ELSE IF j.maxMB > 0 /\ j.totalSize > j.maxMB * MiB
            THEN JanScan([j EXCEPT !.phase = 2, !.k = 1, !.all = SortByCreatedAt(@)], r2keys)
            ELSE JanScan([j EXCEPT !.phase = 3], r2keys)
  ELSE IF j.phase = 2
  THEN IF j.k <= Len(j.all) /\ j.totalSize > j.maxMB * MiB
       THEN [j EXCEPT !.pc = "purging", !.cur = j.all[j.k]]
       ELSE JanScan([j EXCEPT !.phase = 3], r2keys)
  ELSE LET orphans == OrphanKeys(j.sizeMap, r2keys) IN
         IF orphans # {}
         THEN [j EXCEPT !.orphanKeys = orphans, !.totalSize = @ - SumSizes(orphans),
                        !.deletedOrphaned = @ + Cardinality(orphans), !.pc = "orphans"]
         ELSE JanReturn(j)

\* purgeTask's first two lines, for the task the scan stopped at
JanAbort(j, ws_) ==
  IF j.pc = "purging" THEN AbortWorker(ws_, j.cur.id) ELSE ws_
JanAbortHandles(j) ==
  IF j.pc = "purging" THEN [abortControllers EXCEPT ![j.cur.id] = 0] ELSE abortControllers

Orderings(S) ==
  {seq \in [1..Cardinality(S) -> S] : \A a, b \in 1..Cardinality(S) : a # b => seq[a] # seq[b]}

\* cleanupExpired(days, maxMB) up to the first IPA_BUCKET.list: the task
\* records are collected in storage key order (`order`); cutoff stands for
\* Date.now() - days * 86400000 on the scale of createdAt.
cleanupStart(days, maxMB, cutoff, order) ==
  /\ jan.pc = "idle"
  /\ jan.runs < MaxJanitorRuns
  /\ days = 0 => cutoff = 0
  /\ order \in Orderings({i \in DOMAIN taskStore : taskStore[i] # NoTask})
  /\ LET entries == [n \in 1..Len(order) |->
                       [id |-> order[n], accountHash |-> taskStore[order[n]].accountHash,
                        bundleID |-> taskStore[order[n]].software.bundleID,
                        createdAt |-> taskStore[order[n]].createdAt,
                        r2key |-> r2keyStore[order[n]]]]
     IN jan' = [JanIdle EXCEPT !.pc = "list", !.all = entries, !.days = days,
                               !.maxMB = maxMB, !.cutoff = cutoff, !.runs = jan.runs + 1]
  /\ UNCHANGED <<taskStore, r2keyStore, accountIndex, abortControllers, bucket, workers,
                 nextId, deleting>>
  /\ UNCHANGED outsideDM

\* IPA_BUCKET.list settles (all pages): sizeMap and totalSize; then the phases
\* up to the first await.
cleanupListed ==
  /\ jan.pc = "list"
  /\ LET j == JanScan([jan EXCEPT !.sizeMap = bucket, !.totalSize = SumSizes(bucket),
                                  !.phase = 1, !.k = 1, !.copy = jan.all],
                      r2keyStore)
     IN /\ jan' = j
        /\ workers' = JanAbort(j, workers)
        /\ abortControllers' = JanAbortHandles(j)
  /\ UNCHANGED <<taskStore, r2keyStore, accountIndex, bucket, nextId, deleting>>
  /\ UNCHANGED outsideDM

\* purgeTask after deleteR2Files, whose R2 delete has settled (a failure is
\* logged): the records of jan.cur are removed, the loop body finishes, and
\* the phases go on to the next await.
cleanupPurged(ok) ==
  /\ jan.pc = "purging"
  /\ LET e == jan.cur
         task == [software |-> [bundleID |-> e.bundleID]]
         r2keys == [r2keyStore EXCEPT ![e.id] = NoKey]
         counted == [jan EXCEPT
                       !.sizeMap = IF e.r2key # NoKey THEN @ \ {e.r2key} ELSE @,
                       !.totalSize = @ - EntrySize(jan, e),
                       !.all = IF jan.phase = 1 THEN SelectSeq(@, LAMBDA x : x # e) ELSE @,
                       !.deletedByAge = IF jan.phase = 1 THEN @ + 1 ELSE @,
                       !.deletedBySize = IF jan.phase = 2 THEN @ + 1 ELSE @,
                       !.k = @ + 1, !.cur = Null]
         j == JanScan(counted, r2keys)
     IN /\ bucket' = IF ok THEN bucket \ FilesToDelete(e.id, e.accountHash, e.r2key, task)
                   ELSE bucket
        /\ taskStore' = [taskStore EXCEPT ![e.id] = NoTask]
        /\ r2keyStore' = r2keys
        /\ accountIndex' = removeFromAccountIndex(accountIndex, e.accountHash, e.id)
        /\ jan' = j
        /\ workers' = JanAbort(j, workers)
        /\ abortControllers' = JanAbortHandles(j)
  /\ UNCHANGED <<nextId, deleting>>
  /\ UNCHANGED outsideDM

\* The orphan batch delete settles (a failure is logged); cleanupExpired returns.
cleanupOrphansDeleted(ok) ==
  /\ jan.pc = "orphans"
  /\ bucket' = IF ok THEN bucket \ jan.orphanKeys ELSE bucket
  /\ jan' = JanReturn(jan)
  /\ UNCHANGED <<taskStore, r2keyStore, accountIndex, abortControllers, workers, nextId,
                 deleting>>
  /\ UNCHANGED outsideDM

\* createTask and the steps of the downloads it starts
DownloadNext ==
  \/ \E params \in CreateParams : createTask(params)
  \/ \E w \in 1..MaxWorkers, o \in {"ok", "HTTP 503", "File too large"} : WorkerFetch(w, o)
  \/ \E w \in 1..MaxWorkers, ok \in BOOLEAN : WorkerCreateUpload(w, ok)
  \/ \E w \in 1..MaxWorkers, write \in BOOLEAN, p \in ProgressValues,
        o \in {"chunk", "flush", "done", "doneDrain", "CDN stall", "File too large"} :
        WorkerRead(w, o, write, p)
  \/ \E w \in 1..MaxWorkers, ok, more, write \in BOOLEAN, p \in ProgressValues :
        WorkerFlush(w, ok, more, write, p)
  \/ \E w \in 1..MaxWorkers, ok, more \in BOOLEAN : WorkerDrain(w, ok, more)
  \/ \E w \in 1..MaxWorkers, ok \in BOOLEAN : WorkerCompleteUpload(w, ok)
  \/ \E w \in 1..MaxWorkers : WorkerAborted(w)
  \/ \E w \in 1..MaxWorkers, o \in {"ok", "nofiles", "Not a ZIP"} : WorkerInjectRead(w, o)
  \/ \E w \in 1..MaxWorkers, ok \in BOOLEAN : WorkerInjectUpload(w, ok)
  \/ \E w \in 1..MaxWorkers : WorkerInjectGet(w)
  \/ \E w \in 1..MaxWorkers, ok \in BOOLEAN : WorkerInjectPut(w, ok)
  \/ \E w \in 1..MaxWorkers, ok \in BOOLEAN : WorkerInjectDelete(w, ok)

DMNext ==
  \/ \E id \in TaskIds, h \in AccountHashes, ret \in BOOLEAN : pauseTask(id, h, ret)
  \/ \E id \in TaskIds, h \in AccountHashes, ret \in BOOLEAN : resumeTask(id, h, ret)
  \/ \E id \in TaskIds, h \in AccountHashes, ret \in BOOLEAN : deleteTaskBegin(id, h, ret)
  \/ \E id \in TaskIds : deleteTaskEnd(id)
  \/ DownloadNext

\* The janitor's steps
JanitorNext ==
  \/ \E days \in {0, 1}, maxMB \in {0, 15}, cutoff \in 0..(MaxTasks + 1),
        order \in UNION {[1..n -> TaskIds] : n \in 0..MaxTasks} :
        cleanupStart(days, maxMB, cutoff, order)
  \/ cleanupListed
  \/ \E ok \in BOOLEAN : cleanupPurged(ok)
  \/ \E ok \in BOOLEAN : cleanupOrphansDeleted(ok)

\* ------------------------------------------------------------------------
\* DownloadManager.streamToR2 at the level of bytes
\* ------------------------------------------------------------------------
\* Sizes are counted in MiB.  A run of bytes of the response body is the pair
\* <<from, to>> of its offsets in the body; a buffer (a chunk, a merged part)
\* is a sequence of such runs, adjacent runs joined, so that a part holding
\* the body bytes [25, 50) in order is << <<25, 50>> >> and nothing else is.
UPLOAD_PART_SIZE == 25
MAX_DOWNLOAD_SIZE == 8192

MaxChunk == 60
MaxParts == 13
\* Body lengths served, and the lengths reader.read() hands over in one chunk
BodySizes == {0, 10, 25, 40, 75, 300}
ChunkSizes == {10, 25, MaxChunk}
PartNumbers == 1..MaxParts

\* Uint8Array.length
Length(run) == run[2] - run[1]

RECURSIVE Size(_)
Size(data) == IF data = <<>> THEN 0 ELSE Length(Head(data)) + Size(Tail(data))

\* Uint8Array.set(chunk, pos) at the end of what has been written so far
Cat(data, run) ==
  IF Length(run) = 0 THEN data
  ELSE IF data # <<>> /\ data[Len(data)][2] = run[1]
       THEN [data EXCEPT ![Len(data)] = <<data[Len(data)][1], run[2]>>]
       ELSE Append(data, run)

\* The loop of mergeChunks from chunk k on.  The merged array has `size`
\* bytes; the callers guarantee that the chunks hold at least that many.
RECURSIVE mergeLoop(_, _, _, _, _, _, _)
mergeLoop(chunks, size, k, pos, merged, remaining, filled) ==
  IF k > Len(chunks) THEN [merged |-> merged, remaining |-> remaining]
  ELSE LET chunk == chunks[k]
           need == size - pos
       IN IF filled
          THEN mergeLoop(chunks, size, k + 1, pos, merged, Append(remaining, chunk), TRUE)
          ELSE IF Length(chunk) <= need
          THEN mergeLoop(chunks, size, k + 1, pos + Length(chunk), Cat(merged, chunk),
                         remaining, pos + Length(chunk) = size)
          ELSE mergeLoop(chunks, size, k + 1, pos,
                         Cat(merged, <<chunk[1], chunk[1] + need>>),
                         Append(remaining, <<chunk[1] + need, chunk[2]>>), TRUE)

\* A mergeChunks that forgets the cut chunk's tail
mergeChunksDropsTail(chunks, size) ==
  LET r == mergeLoop(chunks, size, 1, 0, <<>>, <<>>, FALSE)
  IN [merged |-> r.merged,
      remaining |-> SelectSeq(r.remaining, LAMBDA run : run \in
                                 {chunks[k] : k \in 1..Len(chunks)})]

mergeChunks(chunks, size) == mergeLoop(chunks, size, 1, 0, <<>>, <<>>, FALSE)

\* The loop of mergeAll from chunk k on; totalSize only sizes the array.
RECURSIVE mergeAllLoop(_, _, _)
mergeAllLoop(chunks, k, merged) ==
  IF k > Len(chunks) THEN merged
  ELSE mergeAllLoop(chunks, k + 1, Cat(merged, chunks[k]))

mergeAll(chunks, totalSize) == mergeAllLoop(chunks, 1, <<>>)

\* parts.sort((a, b) => a.partNumber - b.partNumber): a stable insertion sort
RECURSIVE InsertByPartNumber(_, _)
InsertByPartNumber(sorted, part) ==
  IF sorted = <<>> THEN <<part>>
  ELSE IF sorted[Len(sorted)].partNumber <= part.partNumber
       THEN Append(sorted, part)
       ELSE Append(InsertByPartNumber(SubSeq(sorted, 1, Len(sorted) - 1), part),
                   sorted[Len(sorted)])

RECURSIVE SortByPartNumber(_)
SortByPartNumber(parts) ==
  IF parts = <<>> THEN <<>>
  ELSE InsertByPartNumber(SortByPartNumber(SubSeq(parts, 1, Len(parts) - 1)),
                          parts[Len(parts)])

StreamIdle ==
  [pc |-> "idle", body |-> 0, downloaded |-> 0, chunks |-> <<>>, bufferSize |-> 0,
   partNum |-> 1, parts |-> <<>>, pendingUpload |-> Null, uploading |-> {},
   calls |-> <<>>, completeArgs |-> <<>>, aborted |-> FALSE, err |-> ""]

StreamInit == stream = StreamIdle

\* partNum++ that forgets to count
SamePartNum(n) == n

\* partNum++
NextPartNum(n) == n + 1

\* upload.uploadPart(partNum++, data): the request leaves; `pending` tells the
\* fire-and-forget call of flushBuffer from the awaited ones.
uploadPart(s, data, pending) ==
  [s EXCEPT !.uploading = @ \cup {[partNumber |-> s.partNum, data |-> data,
                                   pending |-> pending]},
            !.calls = Append(@, [partNumber |-> s.partNum, data |-> data]),
            !.partNum = NextPartNum(@)]

\* A catch block that calls upload.abort() without waiting
CatchNoWait(s, err) == [s EXCEPT !.err = err, !.pc = "abort"]

\* The catch block of streamToR2: a pending upload still in flight is awaited,
\* then upload.abort() is called.
Catch(s, err) ==
  [s EXCEPT !.err = err,
            !.pc = IF s.pendingUpload # Null /\ s.pendingUpload.state = "inflight"
                   THEN "catchWait" ELSE "abort"]

\* flushBuffer after its first await (lines 624-646)
FlushContinue(s0) ==
  LET s == [s0 EXCEPT !.pendingUpload = Null]
      part == mergeChunks(s.chunks, UPLOAD_PART_SIZE)
      cut == [s EXCEPT !.chunks = part.remaining, !.bufferSize = @ - UPLOAD_PART_SIZE]
  IN IF s.bufferSize >= UPLOAD_PART_SIZE * 2
     THEN [uploadPart(cut, part.merged, FALSE) EXCEPT !.pc = "flushSync"]
     ELSE IF s.bufferSize >= UPLOAD_PART_SIZE
     THEN [uploadPart(cut, part.merged, TRUE) EXCEPT
             !.pendingUpload = [num |-> s.partNum, state |-> "inflight"],
             !.pc = "read"]
     ELSE [s EXCEPT !.pc = "read"]

\* An await that does not wait
NeverInFlight(p) == FALSE

\* `await pendingUpload` suspends while the background upload has not settled.
InFlight(p) == p # Null /\ p.state = "inflight"

\* `if (pending) await pending` followed by the rest of the function, whose
\* outcome is `continued`: suspended at `waitPc` while the upload is in
\* flight, thrown into the catch block when it rejected.
AwaitPending(s, waitPc, continued) ==
  IF InFlight(s.pendingUpload) THEN [s EXCEPT !.pc = waitPc]
  ELSE IF s.pendingUpload # Null /\ s.pendingUpload.state = "rejected"
       THEN Catch(s, "uploadPart failed")
       ELSE continued

\* flushBuffer (lines 622-647)
flushBuffer(s) == AwaitPending(s, "flushWait", FlushContinue(s))

\* parts.sort(...); await upload.complete(parts)  (lines 715-716)
Complete(s) ==
  [s EXCEPT !.parts = SortByPartNumber(@),
            !.completeArgs = Append(@, SortByPartNumber(s.parts)),
            !.pc = "complete"]

\* A drain that uploads a final part even when nothing is left
HasFinalPartAlways(s) == TRUE

\* if (bufferSize > 0)  (line 709)
HasFinalPart(s) == s.bufferSize > 0

\* The drain after its first await (lines 699-716)
DrainContinue(s) ==
  LET part == mergeChunks(s.chunks, UPLOAD_PART_SIZE)
      cut == [s EXCEPT !.chunks = part.remaining, !.bufferSize = @ - UPLOAD_PART_SIZE]
  IN IF s.bufferSize >= UPLOAD_PART_SIZE
     THEN [uploadPart(cut, part.merged, FALSE) EXCEPT !.pc = "drainSync"]
     ELSE IF HasFinalPart(s)
     THEN [uploadPart(s, mergeAll(s.chunks, s.bufferSize), FALSE) EXCEPT
             !.pc = "finalSync"]
     ELSE Complete(s)

\* streamToR2 up to its first read: createMultipartUpload has returned.
streamToR2(body) ==
  /\ stream.pc = "idle"
  /\ stream' = [stream EXCEPT !.pc = "read", !.body = body]
  /\ UNCHANGED outsideStream

\* One turn of the read loop that gets a chunk (lines 654-680)
ReadChunk(size) ==
  /\ stream.pc = "read"
  /\ ~stream.aborted
  /\ stream.downloaded + size <= stream.body
  /\ LET run == <<stream.downloaded, stream.downloaded + size>>
         s == [stream EXCEPT !.downloaded = @ + size]
         buffered == [s EXCEPT !.chunks = Append(@, run), !.bufferSize = @ + size]
     IN stream' = IF s.downloaded > MAX_DOWNLOAD_SIZE THEN Catch(s, "File too large")
                  ELSE IF buffered.bufferSize >= UPLOAD_PART_SIZE
                  THEN flushBuffer(buffered)
                  ELSE buffered
  /\ UNCHANGED outsideStream

\* The read that reports the end of the body (lines 670, 696-697)
ReadDone ==
  /\ stream.pc = "read"
  /\ ~stream.aborted
  /\ stream.downloaded = stream.body
  /\ stream' = AwaitPending(stream, "drainWait", DrainContinue(stream))
  /\ UNCHANGED outsideStream

\* The loop turn that throws: the signal is aborted (line 654, or the read of
\* the aborted response rejects), or the stall timer wins the race.
ReadFails ==
  /\ stream.pc = "read"
  /\ stream' = Catch(stream, IF stream.aborted THEN "AbortError" ELSE "CDN stall")
  /\ UNCHANGED outsideStream

\* controller.abort() called by pauseTask or deleteTask
AbortSignal ==
  /\ stream.pc \notin {"idle", "done", "failed"}
  /\ ~stream.aborted
  /\ stream' = [stream EXCEPT !.aborted = TRUE]
  /\ UNCHANGED outsideStream

\* The uploadPart call for part number n settles.  A fulfilled call pushes
\* its result on parts; an awaited call then resumes its caller.
UploadSettles(n, ok) ==
  /\ \E u \in stream.uploading : u.partNumber = n
  /\ LET u == CHOOSE x \in stream.uploading : x.partNumber = n
         left == [stream EXCEPT !.uploading = @ \ {u}]
         s == IF ok THEN [left EXCEPT !.parts = Append(@, [partNumber |-> n,
                                                          data |-> u.data])]
              ELSE left
     IN stream' =
          IF u.pending
          THEN IF s.pendingUpload # Null /\ s.pendingUpload.num = n
               THEN [s EXCEPT !.pendingUpload.state =
                                 IF ok THEN "fulfilled" ELSE "rejected"]
               ELSE s
          ELSE IF ~ok THEN Catch(s, "uploadPart failed")
          ELSE IF s.pc = "flushSync" THEN FlushContinue(s)
          ELSE IF s.pc = "drainSync" THEN DrainContinue(s)
          ELSE Complete(s)
  /\ UNCHANGED outsideStream

\* The caller suspended on the pending upload resumes once it has settled.
PendingAwaited ==
  /\ stream.pc \in {"flushWait", "drainWait", "catchWait"}
  /\ stream.pendingUpload.state # "inflight"
  /\ stream' =
       IF stream.pc = "catchWait" THEN [stream EXCEPT !.pc = "abort"]
       ELSE IF stream.pendingUpload.state = "rejected"
       THEN Catch(stream, "uploadPart failed")
       ELSE IF stream.pc = "flushWait" THEN FlushContinue(stream)
       ELSE DrainContinue(stream)
  /\ UNCHANGED outsideStream

\* upload.complete(parts) settles.
CompleteSettles(ok) ==
  /\ stream.pc = "complete"
  /\ stream' = IF ok THEN [stream EXCEPT !.pc = "done"]
               ELSE Catch(stream, "complete failed")
  /\ UNCHANGED outsideStream

\* upload.abort() settles; its failure is logged only.  The error is rethrown.
AbortSettles ==
  /\ stream.pc = "abort"
  /\ stream' = [stream EXCEPT !.pc = "failed"]
  /\ UNCHANGED outsideStream

StreamNext ==
  \/ \E body \in BodySizes : streamToR2(body)
  \/ \E size \in ChunkSizes : ReadChunk(size)
  \/ ReadDone
  \/ ReadFails
  \/ AbortSignal
  \/ \E n \in PartNumbers, ok \in BOOLEAN : UploadSettles(n, ok)
  \/ PendingAwaited
  \/ \E ok \in BOOLEAN : CompleteSettles(ok)
  \/ AbortSettles

\* ------------------------------------------------------------------------
\* Authentication: proof of work and first-time setup
\* ------------------------------------------------------------------------
POW_CHALLENGE_TTL == 60
MAX_USED_CHALLENGES == 10000

MaxNow == 121
MaxChallenges == 2
MaxRequests == 2

\* A challenge `timestamp:random:signature`; signed tells whether the
\* signature is the HMAC of the payload under the Worker's key.
Challenge(timestamp, random, signed) ==
  [timestamp |-> timestamp, random |-> random, signed |-> signed, colons |-> 2]
\* A challenge the Worker did not sign, a string without ':' and no challenge
Forged == Challenge(0, 0, FALSE)
Malformed == [Forged EXCEPT !.colons = 0]
Missing == [Forged EXCEPT !.colons = -1]
\* What a client can send as body.challenge
ChallengeInputs ==
  {Challenge(t, n, TRUE) : t \in 0..MaxNow, n \in 1..MaxChallenges}
    \cup {Forged, Malformed, Missing}
Passwords == {"", "secret"}

\* hashPassword(password): the salt is random, so two calls give two hashes;
\* the request number stands for the salt.
hashPassword(password, salt) == [password |-> password, salt |-> salt]
LegacyHash == hashPassword("legacy", 0)

\* usedChallenges.has(challenge)
Has(used, challenge) == \E u \in used : u[1] = challenge
\* usedChallenges.set(challenge, ts), then the purge of lines 504-508
SetUsed(used, challenge, ts) ==
  LET set == {u \in used : u[1] # challenge} \cup {<<challenge, ts>>}
  IN IF Cardinality(set) > MAX_USED_CHALLENGES
     THEN {u \in set : ~(ts - u[2] > POW_CHALLENGE_TTL * 2)}
     ELSE set

\* A finished request: what is left is the response and what verifyPow said.
Respond(req, status) ==
  [challenge |-> req.challenge, pow |-> req.pow, pc |-> "done", status |-> status,
   password |-> "", nonceOk |-> FALSE, hash |-> Null]

AuthInit ==
  /\ now = 0
  /\ challenges = {}
  /\ usedChallenges = {}
  /\ requests = <<>>
  /\ kvPasswordHash = Null
  /\ doPasswordHash = Null

\* Time passes.
Tick(d) ==
  /\ now + d <= MaxNow
  /\ now' = now + d
  /\ UNCHANGED <<challenges, usedChallenges, requests, kvPasswordHash, doPasswordHash>>
  /\ UNCHANGED outsideAuth

\* GET /auth/challenge: generateChallenge
generateChallenge ==
  /\ Cardinality(challenges) < MaxChallenges
  /\ challenges' = challenges
                      \cup {Challenge(now, Cardinality(challenges) + 1, TRUE)}
  /\ UNCHANGED <<now, usedChallenges, requests, kvPasswordHash, doPasswordHash>>
  /\ UNCHANGED outsideAuth

\* verifyPow before its first await (lines 470-476): TRUE when it goes on.
PowStarts(used, challenge) ==
  /\ challenge.colons > 0
  /\ ~Has(used, challenge)

\* POST /auth/setup up to its first await inside verifyPow (install.ts
\* 168-180, verifyPow 468-479).
PostSetup(password, challenge, nonceOk) ==
  /\ Len(requests) < MaxRequests
  /\ challenge \in challenges \cup {Forged, Malformed, Missing}
  /\ LET req == [challenge |-> challenge, pow |-> "none", pc |-> "powVerify",
                 status |-> 0, password |-> password, nonceOk |-> nonceOk,
                 hash |-> Null]
     IN requests' = Append(requests,
          IF password = "" \/ challenge = Missing THEN Respond(req, 400)
          ELSE IF ~PowStarts(usedChallenges, challenge)
          THEN Respond([req EXCEPT !.pow = "rejected"], 400)
          ELSE req)
  /\ UNCHANGED <<now, challenges, usedChallenges, kvPasswordHash, doPasswordHash>>
  /\ UNCHANGED outsideAuth

At(r, pc) == r \in 1..Len(requests) /\ requests[r].pc = pc

\* crypto.subtle.verify settles: the signature and the freshness tests
\* (lines 480-493).
PowVerified(r) ==
  /\ At(r, "powVerify")
  /\ LET req == requests[r]
     IN requests' = [requests EXCEPT ![r] =
          IF ~req.challenge.signed \/ now - req.challenge.timestamp > POW_CHALLENGE_TTL
          THEN Respond([req EXCEPT !.pow = "rejected"], 400)
          ELSE [req EXCEPT !.pc = "powDigest"]]
  /\ UNCHANGED <<now, challenges, usedChallenges, kvPasswordHash, doPasswordHash>>
  /\ UNCHANGED outsideAuth

\* crypto.subtle.digest settles: the difficulty test, then the challenge is
\* marked as used and verifyPow returns true (lines 496-510); the route goes
\* on to hashPassword.
PowDigested(r) ==
  /\ At(r, "powDigest")
  /\ LET req == requests[r]
     IN IF ~req.nonceOk
        THEN /\ requests' = [requests EXCEPT ![r] =
                               Respond([req EXCEPT !.pow = "rejected"], 400)]
             /\ UNCHANGED usedChallenges
        ELSE /\ requests' = [requests EXCEPT ![r].pow = "accepted", ![r].pc = "hash"]
             /\ usedChallenges' = SetUsed(usedChallenges, req.challenge, now)
  /\ UNCHANGED <<now, challenges, kvPasswordHash, doPasswordHash>>
  /\ UNCHANGED outsideAuth

\* hashPassword settles; setPasswordHashIfNotExists asks AUTH_KV.
PasswordHashed(r) ==
  /\ At(r, "hash")
  /\ requests' = [requests EXCEPT ![r].hash = hashPassword(requests[r].password, r),
                                  ![r].pc = "kvGet"]
  /\ UNCHANGED <<now, challenges, usedChallenges, kvPasswordHash, doPasswordHash>>
  /\ UNCHANGED outsideAuth

\* AUTH_KV.get settles (lines 410-411).
KvGot(r) ==
  /\ At(r, "kvGet")
  /\ requests' = [requests EXCEPT ![r] =
                    IF kvPasswordHash # Null THEN Respond(requests[r], 400)
                    ELSE [requests[r] EXCEPT !.pc = "doGet"]]
  /\ UNCHANGED <<now, challenges, usedChallenges, kvPasswordHash, doPasswordHash>>
  /\ UNCHANGED outsideAuth

\* dm(env).getPasswordHash() settles (lines 413-418): the put that follows
\* carries the migrated hash or the new one.
DoGot(r) ==
  /\ At(r, "doGet")
  /\ requests' = [requests EXCEPT ![r] =
                    IF doPasswordHash # Null
                    THEN [requests[r] EXCEPT !.hash = doPasswordHash, !.pc = "kvPutDo"]
                    ELSE [requests[r] EXCEPT !.pc = "kvPut"]]
  /\ UNCHANGED <<now, challenges, usedChallenges, kvPasswordHash, doPasswordHash>>
  /\ UNCHANGED outsideAuth

\* AUTH_KV.put settles: setPasswordHashIfNotExists returns false after the
\* migration put and true after the put of the new hash; the route answers.
KvPut(r) ==
  /\ At(r, "kvPut") \/ At(r, "kvPutDo")
  /\ kvPasswordHash' = requests[r].hash
  /\ requests' = [requests EXCEPT ![r] =
                    Respond(requests[r], IF requests[r].pc = "kvPut" THEN 200 ELSE 400)]
  /\ UNCHANGED <<now, challenges, usedChallenges, doPasswordHash>>
  /\ UNCHANGED outsideAuth

AuthNext ==
  \/ \E d \in {POW_CHALLENGE_TTL, POW_CHALLENGE_TTL + 1} : Tick(d)
  \/ generateChallenge
  \/ \E password \in Passwords, challenge \in ChallengeInputs, nonceOk \in BOOLEAN :
        PostSetup(password, challenge, nonceOk)
  \/ \E r \in 1..MaxRequests : PowVerified(r)
  \/ \E r \in 1..MaxRequests : PowDigested(r)
  \/ \E r \in 1..MaxRequests : PasswordHashed(r)
  \/ \E r \in 1..MaxRequests : KvGot(r)
  \/ \E r \in 1..MaxRequests : DoGot(r)
  \/ \E r \in 1..MaxRequests : KvPut(r)

\* ------------------------------------------------------------------------
\* The middleware chain: HTTPS redirect and authMiddleware
\* ------------------------------------------------------------------------
\* A path is the sequence of its segments: /api/auth/status is
\* <<"api", "auth", "status">>, /wisp/ is <<"wisp", "">>.
Paths ==
  {<<"api", "downloads">>, <<"api", "packages", "1", "file">>, <<"api", "settings">>,
   <<"wisp", "">>, <<"api", "auth", "status">>, <<"api", "install", "1", "url">>,
   <<"api", "auth">>, <<"index.html">>}

\* path.startsWith('/' + first + '/' + second + '/')
StartsWith(path, first, second) ==
  Len(path) >= 3 /\ path[1] = first /\ path[2] = second

\* app.use('/api/*', ...) and app.use('/wisp/*', ...): the pattern matches
\* the prefix itself and everything below it.
Matches(path, prefix) == Len(path) >= 1 /\ path[1] = prefix

\* A wiring without the skip of line 31
SkipsNothing(path) == Matches(path, "api") \/ Matches(path, "wisp")

\* The paths that index.ts puts behind authMiddleware (lines 29-37)
Gated(path) ==
  \/ /\ Matches(path, "api")
     /\ ~(StartsWith(path, "api", "auth") \/ StartsWith(path, "api", "install"))
  \/ Matches(path, "wisp")

\* deriveKey: the HMAC key is the hash part of the stored string, which
\* PBKDF2 computes from the password and the salt.
deriveKey(passwordHash) == <<passwordHash.password, passwordHash.salt>>

StoredHashes == {hashPassword("secret", 1), hashPassword("other", 2), LegacyHash}

\* What a client can send as the asspp_session cookie: nothing, the empty
\* string, a string without '.', or payload.signature where the signature
\* was made with some key (ForgedKey: with none the server ever derives) and
\* the payload says exp.
ForgedKey == <<"", 0>>
Token(key, exp) == [parts |-> 2, key |-> key, exp |-> exp]
NoCookie == [parts |-> -1, key |-> ForgedKey, exp |-> 0]
EmptyCookie == [parts |-> 0, key |-> ForgedKey, exp |-> 0]
OnePart == [parts |-> 1, key |-> ForgedKey, exp |-> 0]
\* createToken (lines 290-299): exp is the time of issue plus SESSION_MAX_AGE,
\* signed with the key of the hash that is stored when the token is issued.
\* 7 * 24 * 60 * 60 seconds
SESSION_MAX_AGE == 604800
createToken(passwordHash, issued) ==
  Token(deriveKey(passwordHash), issued + SESSION_MAX_AGE)
\* Tokens issued seven days before the start, a minute later, and at the start
IssueTimes == {0 - SESSION_MAX_AGE, POW_CHALLENGE_TTL - SESSION_MAX_AGE, 0}
Cookies ==
  {NoCookie, EmptyCookie, OnePart}
    \cup {Token(key, exp) : key \in {deriveKey(h) : h \in StoredHashes} \cup {ForgedKey},
                            exp \in {POW_CHALLENGE_TTL, 2 * POW_CHALLENGE_TTL + 2}}
    \cup {createToken(h, issued) : h \in StoredHashes, issued \in IssueTimes}

GateIdle ==
  [pc |-> "idle", path |-> <<>>, cookie |-> NoCookie, hash |-> Null, status |-> 0,
   arrived |-> 0, stored |-> FALSE]

GateInit == gate = GateIdle

\* next(): the route runs (the tunnel is handed to a WispProxy, the RPC is
\* sent to the DownloadManager, the asset is served).
PassOn(g) == [g EXCEPT !.pc = "done", !.status = 200]
Unauthorized(g) == [g EXCEPT !.pc = "done", !.status = 401]

\* verifyToken before its first await (lines 302-305)
TokenShape(cookie) == cookie.parts = 2

\* authMiddleware from `getCookie` on (lines 545-550): the hash is known.
CheckCookie(g, passwordHash) ==
  LET h == [g EXCEPT !.hash = passwordHash]
  IN IF passwordHash = Null THEN PassOn(h)
     ELSE IF g.cookie.parts > 0 /\ TokenShape(g.cookie)
          THEN [h EXCEPT !.pc = "verify"]
          ELSE Unauthorized(h)

\* A request arrives: the redirect middleware, then the auth wiring up to
\* AUTH_KV.get (index.ts 18-37, authMiddleware 541).  arrived and stored
\* remember the time and whether a password hash was stored at that moment.
GateRequest(path, http, cookie) ==
  /\ gate.pc \in {"idle", "done"}
  /\ LET g == [GateIdle EXCEPT !.path = path, !.cookie = cookie, !.arrived = now,
                 !.stored = (kvPasswordHash # Null \/ doPasswordHash # Null)]
     IN gate' = IF http THEN [g EXCEPT !.pc = "done", !.status = 301]
                ELSE IF Gated(path) THEN [g EXCEPT !.pc = "kvGet"]
                ELSE PassOn(g)
  /\ UNCHANGED <<authVars, outsideGate>>

\* getPasswordHash: AUTH_KV.get settles (lines 390-391)
GateKvGot ==
  /\ gate.pc = "kvGet"
  /\ gate' = IF kvPasswordHash # Null THEN CheckCookie(gate, kvPasswordHash)
             ELSE [gate EXCEPT !.pc = "doGet"]
  /\ UNCHANGED <<authVars, outsideGate>>

\* getPasswordHash: dm(env).getPasswordHash() settles (lines 393-394)
GateDoGot ==
  /\ gate.pc = "doGet"
  /\ gate' = IF doPasswordHash # Null
             THEN [gate EXCEPT !.hash = doPasswordHash, !.pc = "kvPut"]
             ELSE CheckCookie(gate, Null)
  /\ UNCHANGED <<authVars, outsideGate>>

\* getPasswordHash: the migration put settles; its failure is only logged
\* (lines 395-397).
GateKvPut(ok) ==
  /\ gate.pc = "kvPut"
  /\ kvPasswordHash' = IF ok THEN gate.hash ELSE kvPasswordHash
  /\ gate' = CheckCookie(gate, gate.hash)
  /\ UNCHANGED <<now, challenges, usedChallenges, requests, doPasswordHash, outsideGate>>

\* An expiry test that still accepts at the second of expiry
GateVerifiedAtExpiry ==
  /\ gate.pc = "verify"
  /\ gate' = IF gate.cookie.key = deriveKey(gate.hash) /\ gate.cookie.exp >= now
             THEN PassOn(gate)
             ELSE Unauthorized(gate)
  /\ UNCHANGED <<authVars, outsideGate>>

\* verifyToken: crypto.subtle.verify settles, then the expiry test against
\* the clock (lines 307-323).
GateVerified ==
  /\ gate.pc = "verify"
  /\ gate' = IF gate.cookie.key = deriveKey(gate.hash) /\ gate.cookie.exp > now
             THEN PassOn(gate)
             ELSE Unauthorized(gate)
  /\ UNCHANGED <<authVars, outsideGate>>

\* setPasswordHash(env, hash): POST /auth/change-password, or the put that
\* ends POST /auth/setup, stores a hash while a request is at the gate.
setPasswordHash(hash) ==
  /\ kvPasswordHash # hash
  /\ kvPasswordHash' = hash
  /\ UNCHANGED <<now, challenges, usedChallenges, requests, doPasswordHash, gate,
                 outsideGate>>

GateNext ==
  \/ \E d \in {POW_CHALLENGE_TTL, POW_CHALLENGE_TTL + 1} : Tick(d)
  \/ \E path \in Paths, http \in BOOLEAN, cookie \in Cookies :
        GateRequest(path, http, cookie)
  \/ GateKvGot
  \/ GateDoGot
  \/ \E ok \in BOOLEAN : GateKvPut(ok)
  \/ GateVerified
  \/ \E hash \in StoredHashes \ {LegacyHash} : setPasswordHash(hash)

\* ------------------------------------------------------------------------
\* fetchWithRetry
\* ------------------------------------------------------------------------
CDN_FETCH_MAX_RETRIES == 3

\* What one fetch can settle with: a response with its status, a network
\* error, or the abort of the per-attempt timeout controller.
Settled(kind, status) == [kind |-> kind, status |-> status]
FetchOutcomes ==
  {Settled("response", status) : status \in {200, 404, 499, 500, 503}}
    \cup {Settled("network", 0), Settled("timeout", 0)}
AbortError == Settled("AbortError", 0)

\* response.ok
ResponseOk(outcome) ==
  outcome.kind = "response" /\ outcome.status >= 200 /\ outcome.status <= 299

\* lastError instanceof HttpError && lastError.status < 500
ClientError(outcome) ==
  outcome.kind = "response" /\ ~ResponseOk(outcome) /\ outcome.status < 500

\* A backoff that does not grow
FlatDelay(attempt) == 1000

\* const delay = 1000 * Math.pow(2, attempt)
BackoffDelay(attempt) == 1000 * 2 ^ attempt

RetryIdle ==
  [pc |-> "idle", attempt |-> 0, outcomes |-> <<>>, waits |-> <<>>, aborted |-> FALSE,
   lastError |-> Settled("none", 0), fetches |-> 0]

RetryInit == retry = RetryIdle

\* The top of the loop (lines 125-135): the abort test, then the fetch.
LoopTop(r) ==
  IF r.aborted THEN [r EXCEPT !.pc = "failed", !.lastError = AbortError]
  ELSE [r EXCEPT !.pc = "fetch", !.fetches = @ + 1]

\* fetchWithRetry(url, signal) up to the first fetch; the signal may have
\* been aborted before the call.
fetchWithRetry(aborted) ==
  /\ retry.pc \in {"idle", "returned", "failed"}
  /\ retry' = LoopTop([RetryIdle EXCEPT !.aborted = aborted])
  /\ UNCHANGED outsideRetry

\* The fetch settles while the signal is not aborted (lines 132-153): a
\* response that is ok is returned; anything else is caught, and the catch
\* block throws, gives up after the last attempt, or starts the sleep.
FetchSettles(outcome) ==
  /\ retry.pc = "fetch"
  /\ ~retry.aborted
  /\ LET r == [retry EXCEPT !.outcomes = Append(@, outcome)]
         failed == [r EXCEPT !.pc = "failed", !.lastError = outcome]
     IN retry' =
          IF ResponseOk(outcome) THEN [r EXCEPT !.pc = "returned"]
          ELSE IF ClientError(outcome) THEN failed
          ELSE IF r.attempt = CDN_FETCH_MAX_RETRIES THEN failed
          ELSE [r EXCEPT !.pc = "sleep", !.lastError = outcome,
                         !.waits = Append(@, BackoffDelay(r.attempt))]
  /\ UNCHANGED outsideRetry

\* The fetch of an aborted signal rejects; the catch block rethrows it as
\* AbortError (line 147).
FetchAborted ==
  /\ retry.pc = "fetch"
  /\ retry.aborted
  /\ retry' = [retry EXCEPT !.pc = "failed", !.lastError = AbortError]
  /\ UNCHANGED outsideRetry

\* The timer of the backoff sleep fires (lines 157-160): attempt++ and the
\* top of the loop.
SleepEnds ==
  /\ retry.pc = "sleep"
  /\ retry' = LoopTop([retry EXCEPT !.attempt = @ + 1])
  /\ UNCHANGED outsideRetry

\* controller.abort(): during a sleep the listener of lines 154-157 rejects
\* the sleep at once; a fetch that is in flight rejects later.
RetryAbort ==
  /\ retry.pc \in {"fetch", "sleep"}
  /\ ~retry.aborted
  /\ retry' = IF retry.pc = "sleep"
              THEN [retry EXCEPT !.aborted = TRUE, !.pc = "failed",
                                 !.lastError = AbortError]
              ELSE [retry EXCEPT !.aborted = TRUE]
  /\ UNCHANGED outsideRetry

FetchNext ==
  \/ \E aborted \in BOOLEAN : fetchWithRetry(aborted)
  \/ \E outcome \in FetchOutcomes : FetchSettles(outcome)
  \/ FetchAborted
  \/ SleepEnds
  \/ RetryAbort

\* ------------------------------------------------------------------------
\* zipAppend: appendToZipTail
\* ------------------------------------------------------------------------
MaxFiles == 2

\* w16 / u16: a 16-bit field keeps the low 16 bits.
w16(v) == v % 65536
\* w32 / u32: a 32-bit little-endian field, as its two 16-bit halves.
w32(v) == <<v % 65536, (v \div 65536) % 65536>>
u32(field) == field[1] + 65536 * field[2]

\* An archive is the sequence of its blocks, each with its length in bytes:
\*   data   the local headers and file data of the original archive
\*   local  a local header followed by the stored data (buildLocalEntry)
\*   cd     `count` consecutive Central Directory entries of `len` bytes each
\*   eocd   the End of Central Directory record and the ZIP comment
BlockLength(b) == IF b.kind = "cd" THEN b.len * b.count ELSE b.len

RECURSIVE TotalLength(_)
TotalLength(blocks) ==
  IF blocks = <<>> THEN 0 ELSE BlockLength(Head(blocks)) + TotalLength(Tail(blocks))

RECURSIVE CountEntries(_)
CountEntries(blocks) ==
  IF blocks = <<>> THEN 0 ELSE Head(blocks).count + CountEntries(Tail(blocks))

\* readRange(start, end): the blocks that lie in [start, end); the part of a
\* block that the range cuts is bytes without a signature at their start.
RECURSIVE readRangeFrom(_, _, _, _)
readRangeFrom(blocks, pos, start, end) ==
  IF blocks = <<>> \/ pos >= end THEN <<>>
  ELSE LET b == Head(blocks)
           next == pos + BlockLength(b)
           rest == readRangeFrom(Tail(blocks), next, start, end)
       IN IF next <= start THEN rest
          ELSE IF pos < start
          THEN <<[kind |-> "bytes", len |-> (IF next < end THEN next ELSE end) - start]>>
                 \o rest
          ELSE IF next > end THEN <<[kind |-> "bytes", len |-> end - pos]>>
          ELSE <<b>> \o rest

readRange(blocks, start, end) == readRangeFrom(blocks, 0, start, end)

NoEocd == [found |-> FALSE, zip64 |-> FALSE, entryCount |-> 0, cdSize |-> 0, cdOffset |-> 0]

\* findEocd (lines 118-148): the record is the last block of the tail; a
\* record whose two entry counts differ is skipped, the ZIP64 markers throw.
findEocd(tail) ==
  IF tail = <<>> THEN NoEocd
  ELSE LET b == tail[Len(tail)]
       IN IF b.kind # "eocd" \/ b.diskEntries # b.totalEntries THEN NoEocd
          ELSE IF b.cdOffset = w32(-1) \/ b.totalEntries = w16(-1)
          THEN [NoEocd EXCEPT !.zip64 = TRUE]
          ELSE [found |-> TRUE, zip64 |-> FALSE, entryCount |-> b.totalEntries,
                cdSize |-> u32(b.cdSize), cdOffset |-> u32(b.cdOffset)]

\* parseCentralDirectory (lines 182-228): the entries up to the first block
\* that does not start with the entry signature.
RECURSIVE parseCentralDirectory(_)
parseCentralDirectory(cd) ==
  IF cd = <<>> \/ Head(cd).kind # "cd" THEN <<>>
  ELSE <<Head(cd)>> \o parseCentralDirectory(Tail(cd))

\* buildLocalEntry (lines 263-284)
buildLocalEntry(file) ==
  [kind |-> "local", name |-> file.name, method |-> 0, size |-> w32(file.size),
   len |-> 30 + file.nameLen + file.size]

\* buildCdEntry (lines 289-314)
buildCdEntry(file, localOffset) ==
  [kind |-> "cd", name |-> file.name, method |-> 0, size |-> w32(file.size),
   localOffset |-> w32(localOffset), len |-> 46 + file.nameLen, count |-> 1]

\* The loop of lines 514-519: the local blocks and their offsets
RECURSIVE newLocalBlocks(_)
newLocalBlocks(files) ==
  IF files = <<>> THEN <<>>
  ELSE <<buildLocalEntry(Head(files))>> \o newLocalBlocks(Tail(files))

RECURSIVE newCdBlocks(_, _)
newCdBlocks(files, appendOffset) ==
  IF files = <<>> THEN <<>>
  ELSE <<buildCdEntry(Head(files), appendOffset)>>
         \o newCdBlocks(Tail(files), appendOffset + buildLocalEntry(Head(files)).len)

\* Lines 521-549: the new Central Directory, the new record, the tail.
BuildTail(eocd, existingEntries, files) ==
  LET locals == newLocalBlocks(files)
      newCd == newCdBlocks(files, eocd.cdOffset)
      newCdSize == TotalLength(existingEntries) + TotalLength(newCd)
      newCdOffset == eocd.cdOffset + TotalLength(locals)
      newTotalEntries == CountEntries(existingEntries) + Len(files)
      newEocd == [kind |-> "eocd", len |-> 22,
                  diskEntries |-> w16(newTotalEntries),
                  totalEntries |-> w16(newTotalEntries),
                  cdSize |-> w32(newCdSize), cdOffset |-> w32(newCdOffset)]
  IN [cdOffset |-> eocd.cdOffset,
      tail |-> locals \o existingEntries \o newCd \o <<newEocd>>]

\* The archives and the files of the model.  An entry of an original archive
\* may be deflated and may carry an extra field.
OldEntry(len, count) ==
  [kind |-> "cd", name |-> "old", method |-> 8, size |-> w32(1000),
   localOffset |-> w32(0), len |-> len, count |-> count]

Eocd(entries, cdSize, cdOffset, comment) ==
  [kind |-> "eocd", len |-> 22 + comment, diskEntries |-> entries,
   totalEntries |-> entries, cdSize |-> w32(cdSize), cdOffset |-> w32(cdOffset)]

\* An archive without ZIP64: data, n entries, the record, a comment.
Archive(dataLen, n, comment) ==
  LET cd == IF n = 0 THEN <<>>
            ELSE IF n = 1 THEN <<OldEntry(50, 1)>>
            ELSE <<OldEntry(50, 1), OldEntry(60, n - 1)>>
  IN <<[kind |-> "data", len |-> dataLen]>> \o cd
       \o <<Eocd(n, TotalLength(cd), dataLen, comment)>>

\* 65534 is the largest entry count an archive without ZIP64 can say.
EntryCounts == {0, 1, 2, 65533 - MaxFiles, 65534 - MaxFiles, 65533, 65534}

Archives ==
  {Archive(dataLen, n, comment) :
     dataLen \in {0, 4096}, n \in EntryCounts, comment \in {0, 7}}
    \cup {<<[kind |-> "data", len |-> 4096], Eocd(w16(-1), 0, 4096, 0)>>,
          <<[kind |-> "data", len |-> 4096]>>,
          <<[kind |-> "data", len |-> 4096], OldEntry(50, 1),
            [Eocd(2, 50, 4096, 0) EXCEPT !.diskEntries = 1]>>}

AppendFile(name, nameLen, size) == [name |-> name, nameLen |-> nameLen, size |-> size]

Files == {AppendFile("a.sinf", 6, 300), AppendFile("iTunesMetadata.plist", 20, 0)}

FileLists == UNION {[1..n -> Files] : n \in 0..MaxFiles}

ZipIdle ==
  [pc |-> "idle", archive |-> <<>>, files |-> <<>>, eocd |-> NoEocd,
   cdOffset |-> 0, tail |-> <<>>]

ZipInit == zip = ZipIdle

\* appendToZipTail up to its first readRange (lines 494-509)
appendToZipTail(archive, files) ==
  /\ zip.pc \in {"idle", "done", "failed"}
  /\ zip' = IF files = <<>>
            THEN [ZipIdle EXCEPT !.pc = "done", !.archive = archive,
                                 !.cdOffset = TotalLength(archive)]
            ELSE [ZipIdle EXCEPT !.pc = "readTail", !.archive = archive, !.files = files]
  /\ UNCHANGED outsideZip

\* The tail has been read: findEocd, then the read of the Central Directory
\* (lines 507-511).
ZipTailRead ==
  /\ zip.pc = "readTail"
  /\ LET archiveSize == TotalLength(zip.archive)
         tailSize == IF 65536 + 22 < archiveSize THEN 65536 + 22 ELSE archiveSize
         eocd == findEocd(readRange(zip.archive, archiveSize - tailSize, archiveSize))
     IN zip' = [zip EXCEPT !.pc = IF eocd.found THEN "readCd" ELSE "failed", !.eocd = eocd]
  /\ UNCHANGED outsideZip

\* The Central Directory has been read: parse it and build the tail (lines
\* 511-552).
ZipCdRead ==
  /\ zip.pc = "readCd"
  /\ LET cd == readRange(zip.archive, zip.eocd.cdOffset,
                         zip.eocd.cdOffset + zip.eocd.cdSize)
         built == BuildTail(zip.eocd, parseCentralDirectory(cd), zip.files)
     IN zip' = [zip EXCEPT !.pc = "done", !.cdOffset = built.cdOffset,
                           !.tail = built.tail]
  /\ UNCHANGED outsideZip

ZipNext ==
  \/ \E archive \in Archives, files \in FileLists : appendToZipTail(archive, files)
  \/ ZipTailRead
  \/ ZipCdRead

\* A fresh deployment, or one whose DownloadManager still holds the hash of
\* an earlier version.
AuthStartInit ==
  /\ WispInit /\ DMInit /\ StreamInit /\ GateInit /\ ZipInit /\ RetryInit
  /\ now = 0
  /\ challenges = {}
  /\ usedChallenges = {}
  /\ requests = <<>>
  /\ kvPasswordHash = Null
  /\ doPasswordHash \in {Null, LegacyHash}

\* ------------------------------------------------------------------------
\* The janitor on a store at rest
\* ------------------------------------------------------------------------
MaxSmallStore == 3

Versions == <<"1.0", "1.1", "1.2", "1.3", "1.4", "1.5", "1.6", "1.7", "1.8", "1.9">>

\* The record of task i after its download ended: completed (lines 580-586),
\* or failed in the download (lines 593-595).
RestingTask(i, failed) ==
  LET task == StartedTask(NewTask(Params(Versions[i], "aaaaaaaa", UrlCdn, FALSE), i))
  IN IF failed THEN [task EXCEPT !.status = "failed", !.error = "HTTP 503"]
     ELSE CompletedTask(task)

\* A store with tasks 1..n, none of them running: the tasks in `failed` have
\* failed and own no object, the others are completed and own their object;
\* `orphan` adds an object that no record names.  A task in `leftover` has
\* left an object behind that no record names: an injection that failed
\* after the upload left the object at the key of the failed task, a delete
\* of the temporary key that failed left the .new object of a completed one.
RestingStore(n, failed, orphan, leftover) ==
  /\ taskStore = [i \in 1..n |-> RestingTask(i, i \in failed)]
  /\ r2keyStore = [i \in 1..n |->
                     IF i \in failed THEN NoKey ELSE TaskKey(RestingTask(i, FALSE))]
  /\ accountIndex = [h \in AccountHashes |->
                       IF h = "aaaaaaaa" THEN [i \in 1..n |-> i] ELSE <<>>]
  /\ abortControllers = [i \in 1..n |-> 0]
  /\ bucket = {TaskKey(RestingTask(i, FALSE)) : i \in (1..n) \ (failed \ leftover)}
                 \cup {NewKey(TaskKey(RestingTask(i, FALSE))) : i \in leftover \ failed}
                 \cup (IF orphan THEN {NewKey(ArtifactKey("bbbbbbbb", "com.x.y", 1))}
                       ELSE {})
  /\ workers = <<>>
  /\ nextId = n
  /\ deleting = {}
  /\ jan = JanIdle

\* Small stores of every shape, and the store of ten completed tasks.
JanitorAloneInit ==
  /\ WispInit
  /\ StreamInit
  /\ AuthInit
  /\ GateInit
  /\ ZipInit
  /\ RetryInit
  /\ \/ \E n \in 1..MaxSmallStore, failed \in SUBSET (1..MaxSmallStore), orphan \in BOOLEAN :
          failed \subseteq 1..n /\ RestingStore(n, failed, orphan, {})
     \/ RestingStore(10, {}, FALSE, {})

\* Small stores of every shape, with objects left behind by failed steps
JanitorCleanInit ==
  /\ WispInit
  /\ StreamInit
  /\ AuthInit
  /\ GateInit
  /\ ZipInit
  /\ RetryInit
  /\ \E n \in 1..MaxSmallStore, failed \in SUBSET (1..MaxSmallStore),
        leftover \in SUBSET (1..MaxSmallStore), orphan \in BOOLEAN :
          /\ failed \subseteq 1..n
          /\ leftover \subseteq 1..n
          /\ RestingStore(n, failed, orphan, leftover)

\* ctx.storage.list({ prefix: 'task:' }) returns the records in key order,
\* which is the order of the random ids, not of createdAt.
StorageOrders ==
  UNION {Orderings(1..n) : n \in 0..MaxSmallStore}
    \cup {[i \in 1..10 |-> i], [i \in 1..10 |-> 11 - i],
          [i \in 1..10 |-> IF i <= 5 THEN 2 * i ELSE 2 * (i - 5) - 1]}

JanitorAloneNext ==
  \/ \E days \in {0, 1}, maxMB \in {0, 15, 50, 55}, cutoff \in {0, 2},
        order \in StorageOrders : cleanupStart(days, maxMB, cutoff, order)
  \/ cleanupListed
  \/ \E ok \in BOOLEAN : cleanupPurged(ok)
  \/ \E ok \in BOOLEAN : cleanupOrphansDeleted(ok)

\* cleanupExpired when every IPA_BUCKET.delete succeeds
JanitorCleanNext ==
  \/ \E days \in {0, 1}, maxMB \in {0, 15, 50, 55}, cutoff \in {0, 2},
        order \in StorageOrders : cleanupStart(days, maxMB, cutoff, order)
  \/ cleanupListed
  \/ cleanupPurged(TRUE)
  \/ cleanupOrphansDeleted(TRUE)

Init ==
  WispInit /\ DMInit /\ StreamInit /\ AuthInit /\ GateInit /\ ZipInit /\ RetryInit
Spec == Init /\ [][DMNext]_vars

\* The downloads with the janitor running beside them
SpecJanitor == Init /\ [][DownloadNext \/ JanitorNext]_vars

SpecWisp == Init /\ [][WispNext]_vars

\* cleanupExpired alone, on a store where nothing else runs
SpecJanitorAlone == JanitorAloneInit /\ [][JanitorAloneNext]_vars

\* cleanupExpired alone, every delete succeeding, on a store with leftovers
SpecJanitorClean == JanitorCleanInit /\ [][JanitorCleanNext]_vars

\* The setup route with its proof of work
SpecAuth == AuthStartInit /\ [][AuthNext]_vars

\* One streamToR2 invocation, byte for byte
SpecStream == Init /\ [][StreamNext]_vars

\* The middleware in front of the routes, with the stored hash changing
SpecGate == AuthStartInit /\ [][GateNext]_vars

\* appendToZipTail on the archives and file lists of the model
SpecZip == Init /\ [][ZipNext]_vars

\* One fetchWithRetry call
SpecFetch == Init /\ [][FetchNext]_vars

\* ------------------------------------------------------------------------
\* C1: tunnel admission
\* ------------------------------------------------------------------------
ClaimAllowlist == {HostAuth, HostBuy, HostInit, HostP12Buy, HostP7Buy}

ClaimAdmissible(p) ==
  /\ Len(p) >= 4
  /\ p[1] = 1
  /\ p[2] + 256 * p[3] = 443
  /\ SubSeq(p, 4, Len(p)) \in ClaimAllowlist

\* C1: a socket is opened and a stream entry added only by a CONNECT with
\* streamType 1, port 443 and an allowlisted hostname; every other CONNECT sends
\* exactly one frame, CLOSE 0x41 on its streamId, and leaves sockets and the
\* stream map as they were.
C1_Admission ==
  [][/\ (\/ Len(sockets') > Len(sockets)
         \/ \E id \in StreamIds : streams'[id] # 0 /\ streams'[id] # streams[id])
        => \E id \in StreamIds, p \in ConnectPayloads :
             /\ ClaimAdmissible(p)
             /\ HandleConnect(id, p, FALSE)
             /\ connected' = [hostname |-> SubSeq(p, 4, Len(p)), port |-> 443]
     /\ \A id \in StreamIds, p \in ConnectPayloads, t \in BOOLEAN :
          (~ClaimAdmissible(p) /\ HandleConnect(id, p, t))
            => /\ frames' = Append(frames, [type |-> 4, streamId |-> id, arg |-> 65])
               /\ streams' = streams
               /\ sockets' = sockets]_vars

\* C1 witness: one CONNECT was admitted and another was refused with CLOSE 0x41.
C1_Witness ==
  /\ Len(sockets) >= 1
  /\ \E i \in 1..Len(frames) : frames[i].type = 4 /\ frames[i].arg = 65

\* ------------------------------------------------------------------------
\* C2..C10: the task store
\* ------------------------------------------------------------------------
Stored(i) == taskStore[i] # NoTask
HasStatus(i, status) == Stored(i) /\ taskStore[i].status = status
SameTriple(t, u) ==
  /\ t.accountHash = u.accountHash
  /\ t.software.bundleID = u.software.bundleID
  /\ t.software.version = u.software.version

\* C2: for every (accountHash, bundleID, version) at most one stored task
\* record with that triple has a status other than failed.
C2_AtMostOneLive ==
  \A i, j \in TaskIds :
    (/\ i # j
     /\ Stored(i) /\ Stored(j)
     /\ SameTriple(taskStore[i], taskStore[j])
     /\ taskStore[i].status # "failed")
      => taskStore[j].status = "failed"

\* C3: r2key:<id> exists if and only if task:<id> exists with status completed.
C3_KeyIffCompleted ==
  \A i \in TaskIds : (r2keyStore[i] # NoKey) <=> HasStatus(i, "completed")

Mismatch(id, accountHash) == Stored(id) /\ taskStore[id].accountHash # accountHash

\* C4: for a hash different from the stored record's accountHash, getTask and
\* getR2Key return null, and pauseTask, resumeTask and deleteTask return false
\* and leave task records, r2key records, account index, cancellation handles,
\* workers and blobs unchanged; getTask returns non-null only when the stored
\* accountHash equals the hash.
C4_Tenancy ==
  /\ [](\A id \in TaskIds, h \in AccountHashes :
          /\ Mismatch(id, h) => getTask(id, h) = Null /\ getR2Key(id, h) = Null
          /\ getTask(id, h) # Null => taskStore[id].accountHash = h)
  /\ [][\A id \in TaskIds, h \in AccountHashes, r \in BOOLEAN :
          (/\ Mismatch(id, h)
           /\ \/ pauseTask(id, h, r)
              \/ resumeTask(id, h, r)
              \/ deleteTaskBegin(id, h, r))
            => r = FALSE /\ UNCHANGED dmVars]_vars

\* C4 witness: two tenants hold a task each, one of them completed; its owner
\* gets the record and the key, the other tenant gets neither.
C4_Witness ==
  \E i, j \in TaskIds :
    /\ Stored(i) /\ Stored(j)
    /\ taskStore[i].accountHash # taskStore[j].accountHash
    /\ getR2Key(i, taskStore[i].accountHash) # Null
    /\ getTask(i, taskStore[i].accountHash) # Null
    /\ getR2Key(i, taskStore[j].accountHash) = Null
    /\ getTask(i, taskStore[j].accountHash) = Null

Clean(record) ==
  /\ DOMAIN record \cap SecretFields = {}
  /\ "hasFile" \in DOMAIN record

HashLists ==
  {<<h>> : h \in AccountHashes} \cup {<<h, g>> : h \in AccountHashes, g \in AccountHashes}

\* C5: every record returned by createTask, getTask or listTasks has none of
\* downloadURL, sinfs, iTunesMetadata, filePath, and has hasFile.
C5_Sanitized ==
  /\ \A params \in CreateParams :
       (CreateAccepts(params) /\ nextId < MaxTasks) => Clean(createTaskReturn(params))
  /\ \A id \in TaskIds, h \in AccountHashes :
       getTask(id, h) # Null => Clean(getTask(id, h))
  /\ \A hs \in HashLists :
       \A k \in 1..Len(listTasks(hs)) : Clean(listTasks(hs)[k])

\* C5 witness: a record that still holds its SINF and metadata is returned by
\* getTask and listTasks while another one is completed with its file.
C5_Witness ==
  \E i, j \in TaskIds :
    /\ HasStatus(i, "injecting")
    /\ taskStore[i].sinfs # <<>> /\ taskStore[i].iTunesMetadata # Undefined
    /\ getTask(i, taskStore[i].accountHash) # Null
    /\ Len(listTasks(<<taskStore[i].accountHash>>)) >= 1
    /\ HasStatus(j, "completed")
    /\ getTask(j, taskStore[j].accountHash).hasFile

SecretsCleared(task) ==
  /\ task.downloadURL = EmptyUrl
  /\ task.sinfs = <<>>
  /\ task.iTunesMetadata = Undefined

\* C6: every stored completed record has an empty downloadURL, an empty sinfs
\* list and no iTunesMetadata, and no write puts secrets back on a completed
\* record: a write to it leaves the secrets cleared.
C6_SecretsStayCleared ==
  /\ [](\A i \in TaskIds : HasStatus(i, "completed") => SecretsCleared(taskStore[i]))
  /\ [][\A i \in TaskIds :
          HasStatus(i, "completed")
            => taskStore'[i] = NoTask \/ SecretsCleared(taskStore'[i])]_vars

\* C7: pauseTask returns true only when the stored status is downloading, and
\* the status is then paused; resumeTask returns true only when the stored
\* status is paused, and the status is then downloading with progress 0; a
\* call that returns false changes no stored state and signals no cancellation,
\* and in every other status the call returns false.
C7_PauseResumeGuards ==
  [][\A id \in TaskIds, h \in AccountHashes :
       /\ HasStatus(id, "downloading") =>
            (pauseTask(id, h, TRUE) => taskStore'[id].status = "paused")
       /\ ~HasStatus(id, "downloading") =>
            /\ ~pauseTask(id, h, TRUE)
            /\ UNCHANGED dmVars \/ ~pauseTask(id, h, FALSE)
       /\ HasStatus(id, "paused") =>
            (resumeTask(id, h, TRUE) =>
               taskStore'[id].status = "downloading" /\ taskStore'[id].progress = 0)
       /\ ~HasStatus(id, "paused") =>
            /\ ~resumeTask(id, h, TRUE)
            /\ UNCHANGED dmVars \/ ~resumeTask(id, h, FALSE)]_vars

\* C7 witness: the only task created was paused and resumed: it is downloading
\* again under a second worker.
C7_Witness ==
  /\ nextId = 1
  /\ Len(workers) = 2
  /\ HasStatus(1, "downloading")
  /\ abortControllers[1] = 2

\* C8: once paused, the stored record is not written again until a resumeTask
\* or the removal of the record: the only step that changes a paused record is
\* a successful resumeTask or a delete.
C8_PausedStaysPaused ==
  [][\A i \in TaskIds :
       (HasStatus(i, "paused") /\ taskStore'[i] # taskStore[i])
         => \/ taskStore'[i] = NoTask
            \/ \E h \in AccountHashes : resumeTask(i, h, TRUE)]_vars

\* C9: a paused task never becomes injecting or completed without an
\* intervening resume: no step takes the stored status from paused to
\* injecting or completed.
C9_NoCompletionFromPaused ==
  [][\A i \in TaskIds :
       (HasStatus(i, "paused") /\ taskStore'[i] # NoTask)
         => taskStore'[i].status \notin {"injecting", "completed"}]_vars

\* task:<id> and r2key:<id> are absent, id is in no account index, and no blob
\* exists at the artifact key or its .new sibling
Destroyed(i) ==
  /\ taskStore[i] = NoTask
  /\ r2keyStore[i] = NoKey
  /\ \A h \in AccountHashes : \A k \in 1..Len(accountIndex[h]) : accountIndex[h][k] # i
  /\ \A key \in bucket : key.id # i

\* C10: when deleteTask returns true the task is destroyed, and a task that
\* was created and is destroyed stays destroyed.
C10_StaysDestroyed ==
  [][/\ \A i \in TaskIds : deleteTaskEnd(i) => Destroyed(i)'
     /\ \A i \in TaskIds : (i <= nextId /\ Destroyed(i)) => Destroyed(i)']_vars

\* ------------------------------------------------------------------------
\* C11: the part numbers handed to complete
\* ------------------------------------------------------------------------
\* C11: whenever streamToR2 has called upload.complete, the list it passed
\* carries the part numbers 1, 2, ..., n in this order: the k-th entry has
\* part number k, whatever the chunking of the body and whenever the
\* background upload settled.
C11_PartNumbers ==
  \A c \in 1..Len(stream.completeArgs) :
    \A k \in 1..Len(stream.completeArgs[c]) : stream.completeArgs[c][k].partNumber = k

\* A 300 MiB body has been completed with twelve parts, the background upload
\* having been used along the way.
C11_Witness ==
  /\ stream.pc = "done"
  /\ Len(stream.completeArgs[1]) >= 3
  /\ stream.pendingUpload # Null

\* ------------------------------------------------------------------------
\* C12: part sizes and content
\* ------------------------------------------------------------------------
RECURSIVE ConcatParts(_)
ConcatParts(parts) ==
  IF parts = <<>> THEN <<>>
  ELSE mergeAllLoop(parts[Len(parts)].data, 1,
                    ConcatParts(SubSeq(parts, 1, Len(parts) - 1)))

HighestPartNumber(calls) ==
  IF calls = <<>> THEN 0
  ELSE CHOOSE n \in {calls[k].partNumber : k \in 1..Len(calls)} :
         \A k \in 1..Len(calls) : calls[k].partNumber <= n

\* C12: every part handed to uploadPart except the one with the highest part
\* number holds exactly UPLOAD_PART_SIZE bytes, every part holds between 1
\* byte and UPLOAD_PART_SIZE bytes, and the parts handed to complete,
\* concatenated in part-number order, are the bytes [0, body) of the response
\* body in order.
C12_PartsAreTheBody ==
  /\ \A k \in 1..Len(stream.calls) :
        /\ Size(stream.calls[k].data) >= 1
        /\ Size(stream.calls[k].data) <= UPLOAD_PART_SIZE
        /\ stream.calls[k].partNumber < HighestPartNumber(stream.calls)
             => Size(stream.calls[k].data) = UPLOAD_PART_SIZE
  /\ \A c \in 1..Len(stream.completeArgs) :
        ConcatParts(stream.completeArgs[c])
          = IF stream.body = 0 THEN <<>> ELSE << <<0, stream.body>> >>

\* A 40 MiB body completed: one full part and a partial one, cut out of
\* chunks that do not end on the part boundary.
C12_Witness ==
  /\ stream.pc = "done"
  /\ stream.body = 40
  /\ Len(stream.completeArgs[1]) = 2
  /\ Size(stream.completeArgs[1][2].data) = 15

\* ------------------------------------------------------------------------
\* C13: part uploads in flight
\* ------------------------------------------------------------------------
\* C13: at every moment at most one uploadPart call of the download is in
\* flight.
C13_OneUploadInFlight == Cardinality(stream.uploading) <= 1

\* flushBuffer is held back by the background upload it fired before.
C13_Witness ==
  /\ stream.pc = "flushWait"
  /\ Cardinality(stream.uploading) = 1
  /\ stream.bufferSize >= UPLOAD_PART_SIZE

\* ------------------------------------------------------------------------
\* C14: the 300 MiB example
\* ------------------------------------------------------------------------
\* C14 as stated: a 300 MiB body that reaches complete has made 13 uploadPart
\* calls, twelve of UPLOAD_PART_SIZE and a shorter thirteenth.
C14_ThirteenParts ==
  stream.body = 300 /\ stream.completeArgs # <<>> =>
    /\ Len(stream.calls) = 13
    /\ \A k \in 1..12 : Size(stream.calls[k].data) = UPLOAD_PART_SIZE
    /\ Size(stream.calls[13].data) < UPLOAD_PART_SIZE

\* C14 amended: a 300 MiB body that reaches complete has made exactly 12
\* uploadPart calls, each of UPLOAD_PART_SIZE, and no partial part.
C14_TwelveParts ==
  stream.body = 300 /\ stream.completeArgs # <<>> =>
    /\ Len(stream.calls) = 12
    /\ \A k \in 1..12 : Size(stream.calls[k].data) = UPLOAD_PART_SIZE

C14_Witness ==
  /\ stream.body = 300
  /\ stream.pc = "done"
  /\ stream.bufferSize = 0

\* ------------------------------------------------------------------------
\* C15: the size cap
\* ------------------------------------------------------------------------
\* C15: a task whose download was refused as too large (the declared
\* content-length or the bytes read exceed MAX_DOWNLOAD_SIZE) is failed, and
\* no object exists under its artifact key.
C15_TooLargeLeavesNothing ==
  \A i \in TaskIds :
    Stored(i) /\ taskStore[i].error = "File too large" =>
      /\ taskStore[i].status = "failed"
      /\ TaskKey(taskStore[i]) \notin bucket

\* ------------------------------------------------------------------------
\* C16: the janitor's quota phase
\* ------------------------------------------------------------------------
\* The janitor is about to purge jan.cur in the quota phase.
QuotaPurging == jan.pc = "purging" /\ jan.phase = 2

\* cleanupExpired returns in this step.
JanReturns == jan.pc # "idle" /\ jan'.pc = "idle"

\* The run started on the store of ten completed tasks with maxMB = 55 and
\* purged nothing by age.
TenTaskRun ==
  /\ Len(jan.copy) = 10
  /\ jan.maxMB = 55
  /\ jan.deletedByAge = 0

\* C16: with maxMB > 0, a task is purged by quota only while the running
\* total is above maxMB MiB and only after every older task of the run has
\* been purged; the phase goes on until the total is at or under the cap or
\* no task is left; on ten completed tasks of 10 MiB with maxMB = 55 the run
\* purges exactly the five oldest and returns totalSizeMB = 50.
C16_QuotaPhase ==
  /\ [](QuotaPurging =>
          /\ jan.maxMB > 0
          /\ jan.totalSize > jan.maxMB * MiB
          /\ \A k \in 1..Len(jan.copy) :
                jan.copy[k].createdAt < jan.cur.createdAt
                  => taskStore[jan.copy[k].id] = NoTask)
  /\ [][JanReturns =>
          /\ jan.maxMB > 0 =>
                \/ jan'.totalSize <= jan.maxMB * MiB
                \/ \A i \in DOMAIN taskStore : taskStore'[i] = NoTask
          /\ TenTaskRun =>
                /\ jan'.deletedBySize = 5
                /\ totalSizeMB(jan'.totalSize) = 50 * 100
                /\ \A i \in 1..10 : (taskStore'[i] = NoTask) <=> (i <= 5)]_vars

\* The run on ten tasks has returned, the storage order having been the
\* reverse of the creation order.
C16_Witness ==
  /\ jan.pc = "idle" /\ jan.runs = 1
  /\ jan.deletedBySize = 5
  /\ DOMAIN taskStore = 1..10
  /\ \A i \in 1..10 : (taskStore[i] = NoTask) <=> (i <= 5)
  /\ totalSizeMB(jan.totalSize) = 5000

\* ------------------------------------------------------------------------
\* C17: the janitor's orphan phase
\* ------------------------------------------------------------------------
\* key is the value of some r2key:* record.
Referenced(r2keys, key) == \E i \in DOMAIN r2keys : r2keys[i] = key

\* C17: when a janitor run returns, every object it had listed whose key no
\* r2key:* record holds is gone from the bucket (the batch delete, if one was
\* issued, having succeeded), and every object it had listed whose key an
\* r2key:* record holds is still in the bucket.
C17_OrphanPhase ==
  [][JanReturns /\ ~cleanupOrphansDeleted(FALSE) =>
       \A key \in jan.sizeMap :
         /\ ~Referenced(r2keyStore', key) => key \notin bucket'
         /\ Referenced(r2keyStore', key) => key \in bucket']_vars

\* ------------------------------------------------------------------------
\* C18: CONTINUE frames
\* ------------------------------------------------------------------------
ContinueCount(log) == Cardinality({i \in 1..Len(log) : log[i].type = TYPE_CONTINUE})

\* This step opens the session.
SessionOpens == ~ws /\ ws'

\* This step admits a CONNECT: connect() returned a socket.
ConnectAdmitted == Len(sockets') = Len(sockets) + 1

\* C18: every CONTINUE frame carries bufferRemaining 131072; the step that
\* opens the session sends exactly a CONTINUE for streamId 0, a step that
\* admits a CONNECT sends exactly a CONTINUE for its streamId, and no other
\* step sends a CONTINUE; every DATA frame of a stream comes after a CONTINUE
\* frame of that stream.
C18_Continue ==
  /\ [](\A i \in 1..Len(frames) :
          /\ frames[i].type = TYPE_CONTINUE => frames[i].arg = 131072
          /\ frames[i].type = TYPE_DATA =>
                \E j \in 1..(i - 1) :
                  /\ frames[j].type = TYPE_CONTINUE
                  /\ frames[j].streamId = frames[i].streamId)
  /\ [][IF SessionOpens
         THEN frames' = Append(frames, [type |-> TYPE_CONTINUE, streamId |-> 0,
                                        arg |-> 131072])
         ELSE IF ConnectAdmitted
         THEN \E id \in StreamIds :
                /\ streams'[id] = Len(sockets')
                /\ frames' = Append(frames, [type |-> TYPE_CONTINUE, streamId |-> id,
                                              arg |-> 131072])
         ELSE ContinueCount(frames') = ContinueCount(frames)]_vars

\* The session CONTINUE, the CONTINUE of an admitted stream, then DATA of it.
C18_Witness ==
  /\ Len(frames) >= 3
  /\ frames[1] = [type |-> TYPE_CONTINUE, streamId |-> 0, arg |-> 131072]
  /\ frames[2].type = TYPE_CONTINUE /\ frames[2].streamId # 0
  /\ frames[3].type = TYPE_DATA /\ frames[3].streamId = frames[2].streamId

\* ------------------------------------------------------------------------
\* C19: a challenge is accepted once
\* ------------------------------------------------------------------------
Accepted(c) ==
  {r \in 1..Len(requests) : requests[r].challenge = c /\ requests[r].pow = "accepted"}

\* C19: for every issued challenge, at most one verifyPow call made with it
\* has returned true, concurrent calls included.
C19_OneShot == \A c \in challenges : Cardinality(Accepted(c)) <= 1

\* ------------------------------------------------------------------------
\* C20: first-time setup
\* ------------------------------------------------------------------------
SetupSucceeded == {r \in 1..Len(requests) : requests[r].status = 200}

\* C20: at most one POST /auth/setup is answered with success, and once a
\* password hash is stored in AUTH_KV no setup call changes it.
C20_SetupOnce ==
  /\ [](Cardinality(SetupSucceeded) <= 1)
  /\ [][kvPasswordHash # Null => kvPasswordHash' = kvPasswordHash]_vars

\* ------------------------------------------------------------------------
\* C21: the auth gate
\* ------------------------------------------------------------------------
\* The tunnel and the task RPC routes
TunnelOrTaskRpc(path) ==
  \/ Matches(path, "wisp")
  \/ Len(path) >= 2 /\ path[1] = "api" /\ path[2] \in {"downloads", "packages", "settings"}

\* The endpoints served without a token
OpenEndpoint(path) == StartsWith(path, "api", "auth") \/ StartsWith(path, "api", "install")

\* The cookie is a token signed with the key of the hash the middleware
\* read, and it had not expired when the request arrived.
ValidToken(g) ==
  /\ g.hash # Null
  /\ g.cookie.parts = 2
  /\ g.cookie.key = deriveKey(g.hash)
  /\ g.cookie.exp > g.arrived

\* A request that the redirect middleware let through has been answered.
Answered == gate.pc = "done" /\ gate.status # 301

\* C21 as stated: the tunnel is accepted and a task RPC is executed only for
\* a request with a valid session token, every other such request is
\* answered 401, and /api/auth/* and /api/install/* are served whatever the
\* cookie.
C21_TokenRequired ==
  Answered =>
    /\ TunnelOrTaskRpc(gate.path) => gate.status \in {200, 401}
    /\ TunnelOrTaskRpc(gate.path) /\ gate.status = 200 => ValidToken(gate)
    /\ OpenEndpoint(gate.path) => gate.status = 200

\* C21 amended: the same for every request that arrives while a password
\* hash is stored; the middleware then has read a hash, and the route runs
\* only if the cookie is a valid token for it.  Before any password is set
\* the tunnel and the task RPCs are open.
C21_TokenRequiredOnceSet ==
  Answered =>
    /\ TunnelOrTaskRpc(gate.path) => gate.status \in {200, 401}
    /\ TunnelOrTaskRpc(gate.path) /\ gate.status = 200 /\ gate.stored => ValidToken(gate)
    /\ TunnelOrTaskRpc(gate.path) /\ gate.hash = Null => gate.status = 200 /\ ~gate.stored
    /\ OpenEndpoint(gate.path) => gate.status = 200

\* A tunnel request that arrives with a token of the stored hash, after the
\* password was changed, is accepted.
C21_Witness ==
  /\ Answered
  /\ gate.path = <<"wisp", "">>
  /\ gate.stored
  /\ gate.status = 200
  /\ ValidToken(gate)
  /\ gate.hash = hashPassword("other", 2)

\* ------------------------------------------------------------------------
\* C22: appending to an archive
\* ------------------------------------------------------------------------
\* findEocd on the last 65558 bytes of an archive
EocdOf(archive) ==
  LET archiveSize == TotalLength(archive)
      tailSize == IF 65536 + 22 < archiveSize THEN 65536 + 22 ELSE archiveSize
  IN findEocd(readRange(archive, archiveSize - tailSize, archiveSize))

\* The Central Directory that the record of an archive points at
DirectoryOf(archive) ==
  LET eocd == EocdOf(archive)
  IN parseCentralDirectory(readRange(archive, eocd.cdOffset, eocd.cdOffset + eocd.cdSize))

\* originalBytes[0:splitOffset] ++ tail
Rewritten == readRange(zip.archive, 0, zip.cdOffset) \o zip.tail

\* The k-th appended file has a stored entry at position `at` of the new
\* directory, and the entry points at the local header of that file.
StoredEntryFor(k, at) ==
  LET cd == DirectoryOf(Rewritten)
      local == readRange(Rewritten, u32(cd[at].localOffset), TotalLength(Rewritten))
  IN /\ cd[at].count = 1
     /\ cd[at].method = 0
     /\ cd[at].name = zip.files[k].name
     /\ local # <<>>
     /\ local[1] = buildLocalEntry(zip.files[k])

Appended == zip.pc = "done" /\ zip.files # <<>>

\* C22: after appendToZipTail on a valid archive without ZIP64 and a
\* non-empty list of files, the record of the rewritten archive counts the
\* old entries plus the files, and its directory is the old directory,
\* unchanged and in order, followed by one stored entry per file that
\* points at the new local header of the file.
C22_AppendExtends ==
  Appended =>
    LET old == DirectoryOf(zip.archive)
        cd == DirectoryOf(Rewritten)
    IN /\ EocdOf(Rewritten).found
       /\ EocdOf(Rewritten).entryCount = EocdOf(zip.archive).entryCount + Len(zip.files)
       /\ Len(cd) = Len(old) + Len(zip.files)
       /\ SubSeq(cd, 1, Len(old)) = old
       /\ \A k \in 1..Len(zip.files) : StoredEntryFor(k, Len(old) + k)

\* ------------------------------------------------------------------------
\* C23: fetch with retry
\* ------------------------------------------------------------------------
Retryable(outcome) ==
  \/ outcome.kind \in {"network", "timeout"}
  \/ outcome.kind = "response" /\ outcome.status >= 500

\* C23: fetchWithRetry makes at most 4 attempts; the waits before the 2nd,
\* 3rd and 4th attempt are 1 s, 2 s and 4 s; a response with an error status
\* below 500 ends the call at once with that error; and every attempt after
\* the first follows a 5xx response, a network error or a timeout.
C23_Retry ==
  /\ retry.fetches <= 4
  /\ retry.waits = SubSeq(<<1000, 2000, 4000>>, 1, Len(retry.waits))
  /\ retry.fetches >= 1 => Len(retry.waits) \in {retry.fetches - 1, retry.fetches}
  /\ retry.pc = "fetch" => Len(retry.waits) = retry.fetches - 1
  /\ \A i \in 1..Len(retry.outcomes) :
       LET outcome == retry.outcomes[i]
       IN /\ i < retry.fetches => Retryable(outcome)
          /\ outcome.kind = "response" /\ outcome.status \notin 200..299
               /\ outcome.status < 500 =>
               /\ i = Len(retry.outcomes)
               /\ retry.fetches = i
               /\ retry.pc = "failed"
               /\ retry.lastError = outcome

\* The fourth attempt was made after three waits and failed.
C23_Witness ==
  /\ retry.pc = "failed"
  /\ retry.fetches = 4
  /\ retry.waits = <<1000, 2000, 4000>>
  /\ retry.outcomes = <<Settled("response", 500), Settled("network", 0),
                        Settled("timeout", 0), Settled("response", 503)>>

\* ------------------------------------------------------------------------
\* C24: cancellation stops the worker
\* ------------------------------------------------------------------------
\* Cancellation that arrives during a backoff sleep ends fetchWithRetry with
\* AbortError, and no fetch is started for an aborted signal.
CancelStopsRetry ==
  /\ retry.pc = "sleep" /\ ~retry.aborted /\ retry'.aborted =>
       retry'.pc = "failed" /\ retry'.lastError = AbortError
  /\ retry'.aborted => retry'.fetches <= retry.fetches

\* Once the signal of streamToR2 is aborted, no chunk is read and no part
\* upload is issued.
CancelStopsStream ==
  stream.aborted =>
    /\ stream'.downloaded = stream.downloaded
    /\ Len(stream'.calls) = Len(stream.calls)

\* C24: once cancellation is signalled for a download, the worker starts no
\* further fetch attempt, body read or part upload: a backoff sleep ends with
\* AbortError without another attempt, and the read loop stops before any
\* new part upload is issued.
C24_CancelStopsWork == [][CancelStopsRetry /\ CancelStopsStream]_vars

\* ------------------------------------------------------------------------
\* C25: complete or abort
\* ------------------------------------------------------------------------
\* upload.abort() has been called
AbortCalled == stream.pc \in {"abort", "failed"}

\* What holds of every streamToR2 call: complete is called at most once and
\* only when every part upload has succeeded; abort is called only when no
\* part upload is in flight; the call ends after a complete that succeeded
\* or after abort.
CompleteOrAbort ==
  /\ Len(stream.completeArgs) <= 1
  /\ stream.pc = "complete" =>
       /\ stream.uploading = {}
       /\ Len(stream.parts) = Len(stream.calls)
       /\ stream.completeArgs[1] = stream.parts
  /\ stream.pc = "abort" => stream.uploading = {}
  /\ stream.pc = "done" => Len(stream.completeArgs) = 1 /\ stream.err = ""
  /\ stream.err # "" => stream.pc \in {"catchWait", "abort", "failed"}

\* C25 as stated: moreover, whenever abort is called, complete has never
\* been called.
C25_CompleteXorAbort ==
  /\ CompleteOrAbort
  /\ AbortCalled => stream.completeArgs = <<>>

\* C25 amended: whenever abort is called, complete has never been called,
\* unless the error is the failure of complete itself; abort then follows
\* the complete that failed.
C25_CompleteThenAbort ==
  /\ CompleteOrAbort
  /\ AbortCalled => stream.completeArgs = <<>> \/ stream.err = "complete failed"

\* A cancelled download whose background upload was in flight when the read
\* loop threw: abort has been called after the upload settled.
C25_Witness ==
  /\ stream.pc = "failed"
  /\ stream.err = "AbortError"
  /\ stream.pendingUpload # Null
  /\ stream.pendingUpload.state # "inflight"
  /\ stream.completeArgs = <<>>

\* ------------------------------------------------------------------------
\* C26: the janitor's age phase
\* ------------------------------------------------------------------------
\* The task records the run collected before its first phase.
Collected == IF jan.pc = "list" THEN jan.all ELSE jan.copy

\* The collected task of entry e is older than the cutoff of the run.
OldEntry26(e) == jan.days > 0 /\ e.createdAt < jan.cutoff

\* After this step nothing of the task of entry e is left: no task record, no
\* r2key record, no account index entry, and none of the stored key, the
\* computed key and its .new sibling in the bucket.
GoneAfter(e) ==
  /\ taskStore'[e.id] = NoTask
  /\ r2keyStore'[e.id] = NoKey
  /\ \A n \in DOMAIN accountIndex'[e.accountHash] : accountIndex'[e.accountHash][n] # e.id
  /\ bucket' \cap FilesToDelete(e.id, e.accountHash, e.r2key,
                                [software |-> [bundleID |-> e.bundleID]]) = {}

\* The keys the run listed and did not purge on the way.
StillListed ==
  IF jan.pc = "list" THEN bucket
  ELSE IF jan.pc = "purging" /\ jan.cur.r2key # NoKey THEN jan.sizeMap \ {jan.cur.r2key}
  ELSE jan.sizeMap

\* C26: when a janitor run returns, every task it collected with createdAt
\* older than the cutoff (days > 0) is gone with its records and its three
\* keys, exactly those tasks were counted as purged by age (none with
\* days = 0), none was purged by quota with maxMB = 0, and the orphan phase
\* ran: it either issued the batch delete or found no orphan.
C26_AgePhase ==
  [][JanReturns =>
       /\ \A k \in DOMAIN Collected : OldEntry26(Collected[k]) => GoneAfter(Collected[k])
       /\ jan'.deletedByAge =
            Cardinality({k \in DOMAIN Collected : OldEntry26(Collected[k])})
       /\ jan.days = 0 => jan'.deletedByAge = 0
       /\ jan.maxMB = 0 =>
            /\ jan'.deletedBySize = 0
            /\ \A k \in DOMAIN Collected :
                 ~OldEntry26(Collected[k]) => taskStore'[Collected[k].id] # NoTask
       /\ jan.pc = "orphans" \/ OrphanKeys(StillListed, r2keyStore') = {}]_vars

\* ------------------------------------------------------------------------
\* C27: the orphan batch delete fails
\* ------------------------------------------------------------------------
\* The orphan blobs this step removes from the bucket.
OrphansRemoved == (jan.orphanKeys \cap bucket) \ bucket'

\* C27: the step in which the orphan batch delete settles, failed or not, is
\* the return of the run; the returned deletedOrphaned is the number of
\* orphan blobs the step removed from the bucket (0 when the delete failed),
\* and the returned total is the total before the orphan phase less the
\* sizes of the blobs removed, and of no other.
C27_OrphanCounts ==
  [][jan.pc = "orphans" /\ jan' # jan =>
       /\ JanReturns
       /\ jan'.deletedOrphaned = Cardinality(OrphansRemoved)
       /\ jan'.totalSize =
            jan.totalSize + SumSizes(jan.orphanKeys) - SumSizes(OrphansRemoved)]_vars

\* ------------------------------------------------------------------------
\* C28: the janitor beside a running download
\* ------------------------------------------------------------------------
\* The ids of the tasks the current run has purged or is purging: those
\* spliced out of allTasks by phase 1, the first deletedBySize of the sorted
\* list, and the one whose purge is awaited.
PurgedIds ==
  {jan.copy[k].id : k \in {n \in DOMAIN jan.copy :
                             \A m \in DOMAIN jan.all : jan.all[m] # jan.copy[n]}}
    \cup {jan.all[k].id : k \in {n \in DOMAIN jan.all : n <= jan.deletedBySize}}
    \cup (IF jan.pc = "purging" THEN {jan.cur.id} ELSE {})

\* Task i has published its artifact: the download finished and the task is
\* injecting or completed.
Published(i) ==
  /\ taskStore[i] # NoTask
  /\ taskStore[i].status \in {"injecting", "completed"}
  /\ TaskKey(taskStore[i]) \in bucket

\* C28: no step of a janitor run deletes the published artifact of a task
\* the run does not purge, whether or not r2key:<id> has been written yet.
C28_NoLiveKeyDeleted ==
  [][jan' # jan =>
       \A i \in DOMAIN taskStore :
         Published(i) /\ i \notin PurgedIds => TaskKey(taskStore[i]) \in bucket']_vars

WriterDone(s) ==
  \/ sockets[s].writerClosed
  \/ sockets[s].writeFailed
  \/ sockets[s].pump = "ended"

\* C30: once the WebSocket has closed or errored, every TCP socket opened in
\* the session has its writer closed, the stream map is empty, and from then
\* on no frame is sent and no stream entry is added.
C30_Teardown ==
  /\ [](wsClosed =>
          /\ \A s \in 1..Len(sockets) : WriterDone(s)
          /\ \A id \in StreamIds : streams[id] = 0)
  /\ [][wsClosed => frames' = frames /\ \A id \in StreamIds : streams'[id] = 0]_vars

\* ------------------------------------------------------------------------
\* C31: a stream leaves OPEN
\* ------------------------------------------------------------------------
\* The frames this step sends.
NewFrames == SubSeq(frames', Len(frames) + 1, Len(frames'))

\* The reasons of the CLOSE frames this step sends for streamId id, other
\* than the rejection of a CONNECT.
ClosesSent(id) ==
  SelectSeq(NewFrames, LAMBDA f : /\ f.type = TYPE_CLOSE
                                  /\ f.streamId = id
                                  /\ f.arg # CLOSE_REASON_INVALID_INFO)

\* This step takes the entry of id out of the map while the session is up.
LeavesOpen(id) == streams[id] # 0 /\ streams'[id] = 0 /\ ~wsClosed'

\* C31: a step that takes a stream out of the map, other than the peer's
\* CLOSE, sends exactly one CLOSE frame for its streamId, with reason 0x01
\* when the TCP read returned done and 0x02 when the TCP read or a TCP write
\* failed; and the pump of a socket whose stream was already closed with a
\* CLOSE frame after a failed write sends no second CLOSE for it.  (After the
\* peer's CLOSE the one CLOSE frame may be the pump's.)
C31_OneClose ==
  [][/\ \A id \in StreamIds :
          LeavesOpen(id) /\ ~HandleClose(id) =>
            /\ Len(ClosesSent(id)) = 1
            /\ (\E s \in 1..MaxSockets : PipeToWsEOF(s)) =>
                 ClosesSent(id)[1].arg = CLOSE_REASON_VOLUNTARY
            /\ (\E s \in 1..MaxSockets : PipeToWsError(s)) \/ HandleData(id, TRUE) =>
                 ClosesSent(id)[1].arg = CLOSE_REASON_NETWORK_ERROR
     /\ \A s \in 1..Len(sockets) :
          sockets[s].writeFailed /\ (PipeToWsEOF(s) \/ PipeToWsError(s)) =>
            ClosesSent(sockets[s].streamId) = <<>>]_vars

\* ------------------------------------------------------------------------
\* C32: the errors of findEocd
\* ------------------------------------------------------------------------
\* The record at the end of the archive the call was given, if it has one.
LastBlock == zip.archive[Len(zip.archive)]

\* findEocd has run in the current call.
EocdSought == zip.pc \in {"readCd", "done", "failed"} /\ zip.files # <<>>

\* The two errors: 'EOCD signature not found' and 'ZIP64 archives are not
\* supported'.
NotAZip == zip.pc = "failed" /\ ~zip.eocd.zip64
Unsupported == zip.pc = "failed" /\ zip.eocd.zip64

\* A field of the record holds the ZIP64 marker.
Zip64Sentinel(b) ==
  \/ b.diskEntries = w16(-1)
  \/ b.totalEntries = w16(-1)
  \/ b.cdSize = w32(-1)
  \/ b.cdOffset = w32(-1)

\* C32: findEocd fails with the not-a-ZIP error exactly when the tail holds
\* no EOCD record, and with the unsupported error whenever the record holds a
\* ZIP64 marker or its two entry counts differ.
C32_FindEocdErrors ==
  EocdSought =>
    /\ NotAZip <=> LastBlock.kind # "eocd"
    /\ LastBlock.kind = "eocd"
         /\ (Zip64Sentinel(LastBlock) \/ LastBlock.diskEntries # LastBlock.totalEntries)
         => Unsupported

\* ------------------------------------------------------------------------
\* C33: the temp key of an injection
\* ------------------------------------------------------------------------
\* An injection that has published the temp key `key` is still running.
Attended(key) ==
  \E w \in 1..Len(workers) :
    /\ workers[w].pc \in {"injGet", "injPut", "injDel"}
    /\ NewKey(TaskKey(workers[w].task)) = key

Abandons(key) ==
  /\ key \in bucket' /\ key.new
  /\ ~Attended(key)'
  /\ key \notin bucket \/ Attended(key)

StatusEdges ==
  {<<"pending", "downloading">>, <<"downloading", "paused">>, <<"paused", "downloading">>,
   <<"downloading", "injecting">>, <<"downloading", "completed">>,
   <<"injecting", "completed">>, <<"downloading", "failed">>, <<"injecting", "failed">>}

\* C34: the status of a stored task record changes only along the edges of
\* StatusEdges, to injecting only for a task with a SINF or metadata; a
\* record appears as the record of a new task (pending, saved as downloading
\* before createTask returns), so completed and failed are never left and
\* nothing is entered from outside the path pending, downloading, injecting,
\* completed.
C34_StatusEdges ==
  [][\A id \in TaskIds :
       /\ taskStore[id] # NoTask /\ taskStore'[id] # NoTask
            /\ taskStore'[id].status # taskStore[id].status =>
            /\ <<taskStore[id].status, taskStore'[id].status>> \in StatusEdges
            /\ taskStore'[id].status = "injecting" => NeedsInjection(taskStore[id])
       /\ taskStore[id] = NoTask /\ taskStore'[id] # NoTask =>
            /\ taskStore'[id].status = "downloading"
            /\ \E params \in CreateParams : createTask(params)]_vars

\* ------------------------------------------------------------------------
\* C35: one worker per task, and its handle
\* ------------------------------------------------------------------------
\* Worker w is running for task id and has not been cancelled.
Live(w, id) ==
  /\ Running(w)
  /\ ~workers[w].aborted
  /\ workers[w].task.id = id

\* C35: for every task id at most one worker that has not been cancelled is
\* running, and abortControllers holds the handle of that worker.
C35_OneWorkerWithHandle ==
  \A id \in TaskIds :
    \A w \in 1..Len(workers) :
      Live(w, id) =>
        /\ abortControllers[id] = w
        /\ \A v \in 1..Len(workers) : Live(v, id) => v = w

\* ------------------------------------------------------------------------
\* C36: no record is left in a running status
\* ------------------------------------------------------------------------
\* Some startDownload invocation for task id has not returned yet.
WorkerFor(id) ==
  \E w \in 1..Len(workers) : Running(w) /\ workers[w].task.id = id

\* C36: a task record whose status is pending, downloading or injecting has
\* a worker running for it or is being deleted; every worker's step being an
\* I/O call that settles, the record then goes on to completed, failed or
\* paused, or is deleted.
C36_NoOrphanedStatus ==
  \A id \in TaskIds :
    taskStore[id] # NoTask /\ taskStore[id].status \in {"pending", "downloading", "injecting"}
      => WorkerFor(id) \/ \E d \in deleting : d.id = id

\* ------------------------------------------------------------------------
\* C37: a streamId used again
\* ------------------------------------------------------------------------
\* This step is the end of the pump of socket s.
PumpEnds(s) == PipeToWsEOF(s) \/ PipeToWsError(s)

\* C37: the entry of a streamId refers to the socket opened last under that
\* id; a socket that can still be written to is the one its streamId refers
\* to; and the end of the pump of a socket whose streamId refers to a later
\* socket changes no entry and sends no CLOSE frame.
C37_OwnEntryOnly ==
  /\ [](\A id \in StreamIds :
          streams[id] # 0 =>
            \A s \in 1..Len(sockets) : sockets[s].streamId = id => s <= streams[id])
  /\ [](~wsClosed =>
          \A s \in 1..Len(sockets) : ~WriterDone(s) => streams[sockets[s].streamId] = s)
  /\ [][\A s \in 1..Len(sockets) :
          PumpEnds(s) /\ streams[sockets[s].streamId] \notin {0, s} =>
            streams' = streams /\ ClosesSent(sockets[s].streamId) = <<>>]_vars

\* ------------------------------------------------------------------------
\* C38: a request for a gated path that ran the middleware against the hash
\* that is stored is let through exactly when its cookie is a token signed
\* with the key of that hash whose exp is later than the clock; a token made
\* by createToken expires SESSION_MAX_AGE after its issue.  So once
\* setPasswordHash has stored another hash, the tokens of the previous hash
\* get 401 and a token issued under the new hash is let through.
\* ------------------------------------------------------------------------
StoredNow == IF kvPasswordHash # Null THEN kvPasswordHash ELSE doPasswordHash

Signed(cookie, passwordHash) ==
  cookie.parts > 0 /\ TokenShape(cookie) /\ cookie.key = deriveKey(passwordHash)

GateAnswers ==
  /\ gate.pc \in {"kvGet", "doGet", "kvPut", "verify"}
  /\ gate'.pc = "done"
  /\ StoredNow # Null
  /\ gate'.hash = StoredNow

C38_SessionToken ==
  /\ [][GateAnswers =>
          (gate'.status = 200
             <=> Signed(gate.cookie, StoredNow) /\ gate.cookie.exp > now)]_vars
  /\ [][GateAnswers =>
          \A h \in StoredHashes, issued \in IssueTimes :
            gate.cookie = createToken(h, issued) =>
              (gate'.status = 200
                 <=> deriveKey(h) = deriveKey(StoredNow)
                       /\ now < issued + SESSION_MAX_AGE)]_vars

\* After a change of password a token issued under the new hash is let
\* through, seven days before it expires.
C38_Witness ==
  /\ gate.pc = "done"
  /\ gate.status = 200
  /\ Gated(gate.path)
  /\ kvPasswordHash = hashPassword("other", 2)
  /\ gate.hash = kvPasswordHash
  /\ gate.cookie = createToken(kvPasswordHash, 0)

\* ------------------------------------------------------------------------
\* C39: the record that appendToZipTail writes
\* ------------------------------------------------------------------------
\* The record at the end of the tail
WrittenEocd == zip.tail[Len(zip.tail)]

\* C39: after appendToZipTail on an archive that findEocd accepts and a
\* non-empty list of files, the record at the end of the tail says the true
\* values: the number of old entries plus the number of files, the split
\* offset plus the length of the new local blocks, and the length of the
\* old entries plus the new entries, none of them wrapped around.
C39_TrueEocd ==
  Appended =>
    LET existing == DirectoryOf(zip.archive)
    IN /\ WrittenEocd.totalEntries = CountEntries(existing) + Len(zip.files)
       /\ WrittenEocd.diskEntries = WrittenEocd.totalEntries
       /\ u32(WrittenEocd.cdOffset) = zip.cdOffset + TotalLength(newLocalBlocks(zip.files))
       /\ u32(WrittenEocd.cdSize) =
            TotalLength(existing) + TotalLength(newCdBlocks(zip.files, zip.cdOffset))

\* ------------------------------------------------------------------------
\* C40: the total that the janitor returns
\* ------------------------------------------------------------------------
\* cleanupExpired has returned and nothing has run since
Returned == jan.pc = "idle" /\ jan.runs > 0

\* C40: when no download runs beside the janitor and every delete of an
\* object succeeds, the totalSizeMB that cleanupExpired returns is the total
\* size of the objects left in the bucket, rounded to two decimals, whatever
\* completed tasks, failed tasks, leftover objects and orphans the store held.
C40_TotalSize ==
  Returned => totalSizeMB(jan.totalSize) = totalSizeMB(SumSizes(bucket))

\* A run that purged a task by quota and a leftover object as an orphan
\* returns while objects are left.
C40_Witness ==
  /\ Returned
  /\ jan.deletedBySize > 0
  /\ jan.deletedOrphaned > 0
  /\ bucket # {}
  /\ \E i \in DOMAIN taskStore : taskStore[i] # NoTask /\ taskStore[i].status = "failed"

====
